---- MODULE Spec2Model ----
(***************************************************************************)
(* Collaborative editing engine of statamic-collaboration-multiwindow:     *)
(* the Workspace class (resources/js/Workspace.js) of every open window,   *)
(* the whisper transport between the windows and the cache service         *)
(* (src/StateController.php).                                              *)
(*                                                                         *)
(* Every window runs one Workspace; its fields are the record win[w].      *)
(* Handlers run to completion (single-threaded event loop); an await on a  *)
(* cache request splits a handler into the part before the request and     *)
(* the continuation that runs when the answer arrives.                     *)
(* Times are in milliseconds; the clock advances in steps of TickMs.       *)
(*                                                                         *)
(* Specifications: Spec (one user edits, another window follows), SpecDuo  *)
(* (two users edit a field each), SpecLock (a window joins while two       *)
(* others focus the same field), SpecChunk (chunked whispers), SpecMerge   *)
(* (reconciliation of arbitrary documents), SpecFair (Spec with fairness), *)
(* SpecFail (requests that fail or throw), SpecAlone (one user, two        *)
(* windows), SpecPresence (joining and leaving), SpecDup (focus and blur   *)
(* deliveries), SpecRetry (failed persists and departures), SpecDebounce   *)
(* (the debounce-per-field strategy with its single-field update),         *)
(* SpecRefocus (a user leaves a field and comes back), SpecMove (a user    *)
(* moves between fields), SpecOwn (a user with two windows and a peer),    *)
(* SpecOverlay (reconciliation with a partial cached state), SpecAgain     *)
(* (a user who comes back to a field twice), SpecForce (an administrator   *)
(* unlocks a user), SpecGap (a lost sync-now whisper), SpecNew (an entry   *)
(* that has not been saved yet), SpecSnap (a user joins one who is in a    *)
(* field), SpecCache (the cache service on its own, with JSON documents).  *)
(***************************************************************************)
EXTENDS Integers, Sequences, FiniteSets, TLC

\* ------------------------------------------------------------ bounds
MaxVal == 1              \* field values are 0..MaxVal; 0 is a falsy JS value
MaxFocus == 1            \* focus events of a window's user in a run
MaxEdits == 2            \* value edits of a window's user in a run
DuoEdits == 1            \* the same, when the users of two windows edit
MaxItems == 3            \* entries of a whispered payload
MaxMsgs == 2             \* payloads whispered in a run
MaxDups == 1             \* chunks the network delivers once more
ChunkLen == 3            \* chunkSize of whisper(), 2500 in the program, scaled to the payloads

\* ------------------------------------------------- program constants
localChangeProtectionMs == 3000
warmUpDurationMs == 5000
syncInterval == 3000
fieldUnlockDelay == 3000
fieldInactivityTimeout == 30000
apiTimeout == 4000
noticeDuration == 2000

\* granularity of the clock: a period of the sync interval
TickMs == syncInterval

\* ------------------------------------------------------------ domains
Users == {"A", "B", "C"}
Fields == {"title", "body"}
Val == 0..MaxVal
NoField == "none"
NoTimer == 0 - 1            \* a timer handle that is null / absent
Fired == 0 - 2              \* pendingFieldUnlocks entry whose callback is awaiting its fetch
Null == 0 - 1               \* JS null as a field value (never a member of Val)

Min(a, b) == IF a < b THEN a ELSE b
Max(a, b) == IF a > b THEN a ELSE b

\* { ...a, ...b } of two objects
Spread(a, b) ==
    [k \in (DOMAIN a) \cup (DOMAIN b) |-> IF k \in DOMAIN b THEN b[k] ELSE a[k]]

EmptyObj == [k \in {} |-> 0]

VARIABLES
    userOf,     \* window -> its Statamic.user (the windows of the session)
    win,        \* window -> the fields of its Workspace and of its Vuex stores
    net,        \* whispers in flight: [to, type, user, handle, from]
    snaps,      \* initialize-state-for-window-<to> whispers in flight
    http,       \* cache requests in flight, and their answers on the way back
    cache,      \* the cache entry of the document on the server
    events      \* user events still to come (bounds the run)

vars == <<userOf, win, net, snaps, http, cache, events>>

wins == DOMAIN userOf

\* --------------------------------------------------------- documents
\* values: handle -> value.  meta: handle -> object (key -> value); the key
\* "__collaboration" of a meta object, when present, lists the keys that
\* are sent to the other windows.
MetaKeys == {"k1", "k2"}
InitValues == [f \in Fields |-> 0]
InitMeta ==
    [f \in Fields |->
        IF f = "title"
        THEN [k \in {"k1", "k2", "__collaboration"} |->
                 IF k = "__collaboration" THEN {"k1"} ELSE 0]
        ELSE [k \in {"k1"} |-> 0]]

NoBody == [values |-> EmptyObj, meta |-> EmptyObj]
NoData == [exists |-> FALSE, values |-> EmptyObj, meta |-> EmptyObj]

\* ------------------------------------------------- Workspace fields
\* The state of a Workspace after its constructor and start().
NewWorkspace ==
    [ joined |-> FALSE,              \* channel.here has run (mutations are subscribed)
      destroyed |-> FALSE,
      values |-> InitValues,         \* publish store: values
      meta |-> InitMeta,             \* publish store: meta
      fieldLocks |-> {},             \* publish store: lock records [handle, user]
      users |-> {},                  \* collaboration store: users
      focus |-> [u \in Users |-> NoField],   \* collaboration store: focus
      saveStatus |-> "saved",        \* collaboration store: saveStatus ("notSaved" for a new entry)
      originalValues |-> InitValues, \* collaboration store: originalValues
      notSavedToastShown |-> FALSE,
      unsavedToastShown |-> FALSE,
      lastValues |-> InitValues,
      lastMetaValues |-> InitMeta,
      activeWindows |-> {},
      localWindows |-> {},
      siblings |-> {},               \* the windows of the same browser: those its localChannel reaches
      applyingBroadcast |-> FALSE,
      loadingCachedState |-> FALSE,
      hasPendingChanges |-> FALSE,
      sinceLocalChange |-> localChangeProtectionMs,  \* Date.now() - lastLocalChangeTime, capped
      warmUpPeriod |-> TRUE,
      warmUpTimer |-> NoTimer,
      inactivityTimer |-> FALSE,     \* the 12 hour session timer is armed
      syncIntervalTimer |-> NoTimer,
      currentFocusedField |-> NoField,
      fieldInactivityTimer |-> NoTimer,
      autoUnlockNotice |-> 0,        \* ms left of the toast 'Field auto-unlocked due to inactivity.'
      pendingFieldUnlocks |-> [f \in Fields |-> NoTimer],
      orphanUnlocks |-> {},          \* armed unlock timers no longer in pendingFieldUnlocks
      hEditAge |-> [f \in Fields |-> localChangeProtectionMs],
      hTyped |-> [f \in Fields |-> Null],   \* history: the value the user typed last into f
      hEdited |-> FALSE,             \* history: the user has edited since the cache entry was last cleared
      hCleared |-> FALSE,            \* history: a DELETE of this window has completed
      hSeen |-> {},                  \* history: <<window id, "in" or "out">>, the last presence whisper received of each id
      hFailed |-> FALSE,             \* history: a persist of this window has failed
      chunkEvents |-> EmptyObj,      \* `events` of listenForWhisper: message id -> chunks so far
      hSent |-> {},                  \* history: the large payloads this window whispered
      hDelivered |-> <<>> ]          \* history: the payloads listenForWhisper's callback got
                                     \* history: time since the user last edited f, capped

\* ----------------------------------------------------------- whispers
Msg(type, user, handle, from) ==
    [type |-> type, user |-> user, handle |-> handle, from |-> from]

\* The windows subscribed to the channel: a whisper reaches the others.
Listeners == {v \in wins : win[v].joined /\ ~win[v].destroyed}

\* the messages of the same-browser BroadcastChannel (localChannel)
LocalTypes == {"local-window-joined", "local-window-present", "local-window-left"}

\* the whispers of sender `from` still on their way to window `to`
Queued(from, to) == {x \in net : x.to = to /\ x.m.from = from /\ x.m.type \notin LocalTypes}

\* the place of the last of them in the order they were sent in
Rank(from, to) ==
    IF Queued(from, to) = {} THEN 0
    ELSE CHOOSE n \in {x.n : x \in Queued(from, to)} : \A x \in Queued(from, to) : x.n <= n

\* channel.whisper(event, payload) for the payloads out[1], out[2], ... sent
\* by w in this order: the socket delivers the whispers of one sender in order
Sent(w, out) ==
    IF win[w].destroyed THEN {}
    ELSE {[to |-> v, m |-> out[i], n |-> Rank(out[i].from, v) + i] :
              v \in Listeners \ {w}, i \in 1..Len(out)}

\* the localChannel messages of window `from` on their way to window `to`
LocalQueued(from, to) == {x \in net : x.to = to /\ x.m.from = from /\ x.m.type \in LocalTypes}

LocalRank(from, to) ==
    IF LocalQueued(from, to) = {} THEN 0
    ELSE CHOOSE n \in {x.n : x \in LocalQueued(from, to)} : \A x \in LocalQueued(from, to) : x.n <= n

\* this.localChannel.postMessage({ type, windowId }): it reaches the windows
\* of the same browser that have the channel open
postMessage(w, type) ==
    {[to |-> v, m |-> Msg(type, userOf[w], NoField, w), n |-> LocalRank(w, v) + 1] :
        v \in {u \in win[w].siblings : ~win[u].destroyed}}

\* An isAlone that does not look at the windows of the same browser.
isAloneIgnoringLocalWindows(s) ==
    IF s.warmUpPeriod THEN FALSE
    ELSE Cardinality(s.users) <= 1 /\ Cardinality(s.activeWindows) <= 1

isAlone(s) ==
    IF s.warmUpPeriod THEN FALSE
    ELSE LET multipleUsers == Cardinality(s.users) > 1
             multipleRemoteWindows == Cardinality(s.activeWindows) > 1
             multipleLocalWindows == Cardinality(s.localWindows) > 0
         IN  ~multipleUsers /\ ~multipleRemoteWindows /\ ~multipleLocalWindows

\* A whisper() that skips a forced message as well when the window is alone.
whisperIgnoringForce(s, m, force) == IF isAlone(s) THEN <<>> ELSE <<m>>

\* this.whisper(event, payload, {force}): the payloads it puts on the channel.
\* (The payloads of the events sent through it here are below chunkSize;
\* the chunked path is the subject of SpecChunk.)
whisper(s, m, force) == IF ~force /\ isAlone(s) THEN <<>> ELSE <<m>>

\* ------------------------------------------------- focus and locks
focus(s, user, handle) == [s EXCEPT !.focus[user] = handle]

blur(s, user) == [s EXCEPT !.focus[user] = NoField]

\* publish store lockField: Vue.set(fieldLocks, handle, user)
lockField(s, user, handle) ==
    [s EXCEPT !.fieldLocks =
        {l \in @ : l.handle # handle} \cup {[handle |-> handle, user |-> user]}]

\* publish store unlockField: Vue.delete(fieldLocks, handle)
unlockField(s, handle) ==
    [s EXCEPT !.fieldLocks = {l \in @ : l.handle # handle}]

\* A focusAndLock that records the new owner next to the old one.
focusAndLockKeepingOwner(s, user, handle) ==
    [focus(s, user, handle) EXCEPT !.fieldLocks = @ \cup {[handle |-> handle, user |-> user]}]

focusAndLock(s, user, handle) == lockField(focus(s, user, handle), user, handle)

blurAndUnlock(s, user, handle) ==
    LET h == IF handle # NoField THEN handle ELSE s.focus[user]
    IN  IF h = NoField THEN s ELSE unlockField(blur(s, user), h)

cancelPendingUnlock(s, handle) ==
    IF s.pendingFieldUnlocks[handle] # NoTimer
    THEN [s EXCEPT !.pendingFieldUnlocks[handle] = NoTimer]
    ELSE s

\* A scheduleDelayedUnlock that arms its timer without clearing the one that
\* is pending for the field: the old timer stays armed, out of reach.
scheduleDelayedUnlockKeepingTimer(s, handle) ==
    [s EXCEPT !.orphanUnlocks =
                  IF s.pendingFieldUnlocks[handle] # NoTimer
                  THEN @ \cup {[handle |-> handle, left |-> s.pendingFieldUnlocks[handle]]}
                  ELSE @,
              !.pendingFieldUnlocks[handle] = fieldUnlockDelay]

\* setTimeout(..., fieldUnlockDelay), remembered in pendingFieldUnlocks
scheduleDelayedUnlock(s, handle) ==
    [cancelPendingUnlock(s, handle) EXCEPT !.pendingFieldUnlocks[handle] = fieldUnlockDelay]

stopSyncInterval(s) == [s EXCEPT !.syncIntervalTimer = NoTimer]

startSyncInterval(s) == [stopSyncInterval(s) EXCEPT !.syncIntervalTimer = syncInterval]

clearFieldInactivityTimer(s) == [s EXCEPT !.fieldInactivityTimer = NoTimer]

\* A reset that leaves a running timer alone instead of restarting it.
resetFieldInactivityTimerKeeping(s) ==
    IF s.fieldInactivityTimer # NoTimer THEN s
    ELSE [s EXCEPT !.fieldInactivityTimer = fieldInactivityTimeout]

resetFieldInactivityTimer(s) ==
    [clearFieldInactivityTimer(s) EXCEPT !.fieldInactivityTimer = fieldInactivityTimeout]

resetActivityTimer(s) == [s EXCEPT !.inactivityTimer = TRUE]

clearActivityTimer(s) == [s EXCEPT !.inactivityTimer = FALSE]

\* ------------------------------------------------- change detection
Falsy(v) == v = 0 \/ v = Null

\* hasChanged('value', handle, newValue): JSON.stringify(cache[handle] || null)
\* differs from JSON.stringify(newValue)
hasChanged(s, handle, newValue) ==
    LET lastValue == IF Falsy(s.lastValues[handle]) THEN Null ELSE s.lastValues[handle]
    IN  lastValue # newValue

\* hasChanged('meta', ...): a meta object is never falsy
hasChangedMeta(s, handle, newValue) == s.lastMetaValues[handle] # newValue

\* updateSaveStatus: the first change of a new entry only shows its notice;
\* otherwise the status follows the comparison with the original values
updateSaveStatus(s) ==
    IF s.saveStatus = "notSaved" /\ ~s.notSavedToastShown
    THEN [s EXCEPT !.notSavedToastShown = TRUE]
    ELSE LET hasChanges == s.values # s.originalValues
         IN  IF hasChanges /\ s.saveStatus # "changesNotSaved"
             THEN [s EXCEPT !.saveStatus = "changesNotSaved", !.unsavedToastShown = TRUE]
             ELSE IF ~hasChanges /\ s.saveStatus # "saved"
             THEN [s EXCEPT !.saveStatus = "saved", !.unsavedToastShown = FALSE]
             ELSE s

\* what the entry.saved hook and the 'saved' listener do to the save status
markSaved(s) ==
    [s EXCEPT !.originalValues = s.values, !.saveStatus = "saved",
              !.unsavedToastShown = FALSE, !.notSavedToastShown = FALSE]

\* vuexFieldValueHasBeenSet, after the store has set the value
vuexFieldValueHasBeenSet(s, handle, value) ==
    IF ~hasChanged(s, handle, value) THEN s
    ELSE LET s1 == resetActivityTimer(updateSaveStatus([s EXCEPT !.lastValues[handle] = value]))
         IN  IF ~s1.applyingBroadcast
             THEN [s1 EXCEPT !.sinceLocalChange = 0, !.hasPendingChanges = TRUE]
             ELSE s1

vuexFieldMetaHasBeenSet(s, handle, value) ==
    IF ~hasChangedMeta(s, handle, value) THEN s
    ELSE LET s1 == resetActivityTimer([s EXCEPT !.lastMetaValues[handle] = value])
         IN  IF ~s1.applyingBroadcast
             THEN [s1 EXCEPT !.hasPendingChanges = TRUE]
             ELSE s1

\* cleanEntireMetaPayload: of a meta object that lists "__collaboration"
\* only the listed keys are sent
cleanEntireMetaPayload(meta) ==
    [h \in DOMAIN meta |->
        IF "__collaboration" \in DOMAIN meta[h]
        THEN [k \in meta[h]["__collaboration"] |-> meta[h][k]]
        ELSE meta[h]]

\* restoreEntireMetaPayload: { ...this.lastMetaValues[key], ...value }
restoreEntireMetaPayload(s, payload) ==
    [h \in DOMAIN payload |-> Spread(s.lastMetaValues[h], payload[h])]

\* ------------------------------------------------------ cache requests
Req(w, kind, src, handle, body) ==
    [w |-> w, kind |-> kind, phase |-> "req", src |-> src, handle |-> handle,
     body |-> body, data |-> NoData, left |-> apiTimeout]

\* A loadCachedState without the guard against concurrent calls.
loadSkipsUnguarded(s, source) ==
    source # "before-unlock" /\ s.sinceLocalChange < localChangeProtectionMs

\* loadCachedState returns at once, without a request
loadSkips(s, source) ==
    \/ s.loadingCachedState
    \/ /\ source # "before-unlock"
       /\ s.sinceLocalChange < localChangeProtectionMs

\* loadCachedState up to its fetch
loadBegin(s) == [s EXCEPT !.loadingCachedState = TRUE, !.applyingBroadcast = TRUE]

\* A merge that remembers the values it overwrites instead of the cached ones.
loadApplyCachingOld(s, ok, data) ==
    LET s1 == IF ok /\ data.exists /\ DOMAIN data.values # {}
              THEN [s EXCEPT !.values = Spread(s.values, data.values),
                             !.lastValues = Spread(s.lastValues, s.values)]
              ELSE s
        s2 == IF ok /\ data.exists /\ DOMAIN data.meta # {}
              THEN [s1 EXCEPT !.meta = Spread(s1.meta, data.meta),
                              !.lastMetaValues = Spread(s1.lastMetaValues, data.meta)]
              ELSE s1
    IN  [s2 EXCEPT !.applyingBroadcast = FALSE, !.loadingCachedState = FALSE]

\* A loadCachedState that forgets the last-seen values when it gets no state.
loadApplyForgetting(s, ok, data) ==
    LET s1 == IF ok /\ data.exists /\ DOMAIN data.values # {}
              THEN [s EXCEPT !.values = Spread(s.values, data.values),
                             !.lastValues = Spread(s.lastValues, data.values)]
              ELSE [s EXCEPT !.lastValues = [f \in DOMAIN @ |-> Null]]
        s2 == IF ok /\ data.exists /\ DOMAIN data.meta # {}
              THEN [s1 EXCEPT !.meta = Spread(s1.meta, data.meta),
                              !.lastMetaValues = Spread(s1.lastMetaValues, data.meta)]
              ELSE s1
    IN  [s2 EXCEPT !.applyingBroadcast = FALSE, !.loadingCachedState = FALSE]

\* loadCachedState from the answer on: the merge, then the finally block
loadApply(s, ok, data) ==
    LET s1 == IF ok /\ data.exists /\ DOMAIN data.values # {}
              THEN [s EXCEPT !.values = Spread(s.values, data.values),
                             !.lastValues = Spread(s.lastValues, data.values)]
              ELSE s
        s2 == IF ok /\ data.exists /\ DOMAIN data.meta # {}
              THEN [s1 EXCEPT !.meta = Spread(s1.meta, data.meta),
                              !.lastMetaValues = Spread(s1.lastMetaValues, data.meta)]
              ELSE s1
    IN  [s2 EXCEPT !.applyingBroadcast = FALSE, !.loadingCachedState = FALSE]

\* A loadCachedState without the finally block: a throwing merge leaves the flags set.
loadApplyThrowingStuck(s, data, at) == s

\* loadCachedState from a successful answer on, when a store commit of the
\* merge throws: at setValues nothing is merged, at setMeta the values are;
\* the catch block logs, the finally block runs
loadApplyThrowing(s, data, at) ==
    LET s1 == IF at = "setMeta" /\ DOMAIN data.values # {}
              THEN [s EXCEPT !.values = Spread(s.values, data.values),
                             !.lastValues = Spread(s.lastValues, data.values)]
              ELSE s
    IN  [s1 EXCEPT !.applyingBroadcast = FALSE, !.loadingCachedState = FALSE]

\* persistAllChanges up to its fetch (the caller has checked hasPendingChanges)
persistBegin(s) == [s EXCEPT !.hasPendingChanges = FALSE]

\* persistAllChanges from the answer on
\* A persistAllChanges whose catch block does not set hasPendingChanges again.
persistEndForgetting(s, ok) == IF ok THEN s ELSE [s EXCEPT !.hFailed = TRUE]

\* persistAllChanges after the await: the catch block
persistEnd(s, ok) ==
    IF ok THEN s ELSE [s EXCEPT !.hasPendingChanges = TRUE, !.hFailed = TRUE]

\* StateController::show
show(c) ==
    IF ~c.exists THEN NoData
    ELSE [exists |-> TRUE, values |-> c.values, meta |-> c.meta]

\* StateController::update with full = true
update(c, body) == [exists |-> TRUE, values |-> body.values, meta |-> body.meta]

\* StateController::destroy
destroyEntry(c) == NoData

\* ---------------------------------------------------- continuations
Result(s, out) == [s |-> s, out |-> out]

\* `delete this.pendingFieldUnlocks[handle]` at the end of the unlock callback:
\* a timer armed meanwhile for the handle keeps running, no longer remembered
deletePendingUnlock(s, handle) ==
    IF s.pendingFieldUnlocks[handle] >= 0
    THEN [s EXCEPT !.orphanUnlocks = @ \cup {[handle |-> handle, left |-> s.pendingFieldUnlocks[handle]]},
                   !.pendingFieldUnlocks[handle] = NoTimer]
    ELSE [s EXCEPT !.pendingFieldUnlocks[handle] = NoTimer]

\* the unlock callback after `await this.loadCachedState('before-unlock')`
unlockCallbackEnd(s, handle) == deletePendingUnlock(unlockField(s, handle), handle)

\* what runs after `await this.loadCachedState(source)` in its caller
afterLoad(s, w, source, handle) ==
    CASE source \in {"channel.here", "visibilityHandler"} ->
            Result(s, <<Msg("window-joined", userOf[w], NoField, w)>>)
      [] source = "before-unlock" -> Result(unlockCallbackEnd(s, handle), <<>>)
      [] OTHER -> Result(s, <<>>)

\* blur handler / autoUnlockField after `await this.persistAllChanges()`
blurTail(s, w, handle) ==
    LET s1 == blur(s, userOf[w])
    IN  Result(scheduleDelayedUnlock(s1, handle),
               <<Msg("sync-now", userOf[w], NoField, w)>>
                   \o whisper(s1, Msg("blur", userOf[w], handle, w), FALSE))

\* autoUnlockField after `await this.persistAllChanges()`: as the blur
\* handler, then the notice
autoUnlockTail(s, w, handle) ==
    LET r == blurTail(s, w, handle)
    IN  Result([r.s EXCEPT !.autoUnlockNotice = noticeDuration], r.out)

\* what runs after `await this.persistAllChanges()` in its caller
afterPersist(s, w, source, handle) ==
    CASE source = "blur" -> blurTail(s, w, handle)
      [] source = "autoUnlock" -> autoUnlockTail(s, w, handle)
      [] OTHER -> Result(s, <<>>)

\* ------------------------------------------------------------ actions
Alive(w) == win[w].joined /\ ~win[w].destroyed

\* the user of window w does something of this kind
UserAt(w, kind) == Alive(w) /\ events[kind][w] > 0

Spend(w, kind) == [events EXCEPT ![kind][w] = @ - 1]

Locked(s, handle) == \E l \in s.fieldLocks : l.handle = handle

\* channel.here: the window has joined the presence channel
Here(w) ==
    /\ ~win[w].joined /\ ~win[w].destroyed
    /\ LET present == {userOf[v] : v \in Listeners}
           s1 == [win[w] EXCEPT !.joined = TRUE,
                                !.users = present \cup {userOf[w]},
                                !.activeWindows = @ \cup {w},
                                !.warmUpPeriod = TRUE,
                                !.warmUpTimer = warmUpDurationMs]
           s2 == resetActivityTimer(s1)
           joining == IF userOf[w] \in present THEN <<>>
                      ELSE <<Msg("joining", userOf[w], NoField, "server")>>
       IN  /\ IF loadSkips(s2, "channel.here")
              THEN /\ win' = [win EXCEPT ![w] = s2]
                   /\ net' = net \cup Sent(w, joining \o afterLoad(s2, w, "channel.here", NoField).out)
                   /\ http' = http
              ELSE /\ win' = [win EXCEPT ![w] = loadBegin(s2)]
                   /\ net' = net \cup Sent(w, joining)
                   /\ http' = http \cup {Req(w, "GET", "channel.here", NoField, NoBody)}
    /\ UNCHANGED <<userOf, snaps, cache, events>>

\* container 'focus' event
LocalFocus(w, handle) ==
    /\ UserAt(w, "focus") /\ handle \in events.fields[w]
    /\ win[w].currentFocusedField = NoField
    /\ ~Locked(win[w], handle)
    /\ LET s1 == cancelPendingUnlock(win[w], handle)
           s2 == [s1 EXCEPT !.currentFocusedField = handle]
           s3 == resetFieldInactivityTimer(startSyncInterval(s2))
           s4 == focus(s3, userOf[w], handle)
       IN  /\ win' = [win EXCEPT ![w] = s4]
           /\ net' = net \cup Sent(w, whisper(s4, Msg("focus", userOf[w], handle, w), FALSE))
    /\ events' = Spend(w, "focus")
    /\ UNCHANGED <<userOf, snaps, http, cache>>

\* container 'blur' event
LocalBlur(w) ==
    /\ Alive(w)
    /\ win[w].currentFocusedField # NoField
    /\ LET handle == win[w].currentFocusedField
           s1 == clearFieldInactivityTimer(stopSyncInterval(win[w]))
           s2 == [s1 EXCEPT !.currentFocusedField = NoField]
       IN  IF s2.hasPendingChanges
           THEN /\ win' = [win EXCEPT ![w] = persistBegin(s2)]
                /\ http' = http \cup
                      {Req(w, "POST", "blur", handle, [values |-> s2.values, meta |-> s2.meta])}
                /\ net' = net
           ELSE LET r == blurTail(s2, w, handle)
                IN  /\ win' = [win EXCEPT ![w] = r.s]
                    /\ net' = net \cup Sent(w, r.out)
                    /\ http' = http
    /\ UNCHANGED <<userOf, snaps, cache, events>>

\* The user types in the focused field: keydown, then the store's
\* setFieldValue mutation, which the subscriber sees.
LocalEdit(w, value) ==
    /\ UserAt(w, "edit")
    /\ win[w].currentFocusedField # NoField
    /\ ~Locked(win[w], win[w].currentFocusedField)
    /\ LET handle == win[w].currentFocusedField
           s1 == resetFieldInactivityTimer(win[w])
           s2 == [s1 EXCEPT !.values[handle] = value,
                            !.hTyped[handle] = IF value # win[w].values[handle] THEN value ELSE @,
                            !.hEdited = @ \/ value # win[w].values[handle],
                            !.hEditAge[handle] = IF value # win[w].values[handle] THEN 0 ELSE @]
       IN  win' = [win EXCEPT ![w] = vuexFieldValueHasBeenSet(s2, handle, value)]
    /\ events' = Spend(w, "edit")
    /\ UNCHANGED <<userOf, net, snaps, http, cache>>

\* The user changes the meta of a field: the store's setFieldMeta mutation
LocalMetaEdit(w, handle, key) ==
    /\ UserAt(w, "meta")
    /\ win[w].currentFocusedField = handle
    /\ ~Locked(win[w], handle)
    /\ key \in DOMAIN win[w].meta[handle] /\ key \in MetaKeys
    /\ LET value == [win[w].meta[handle] EXCEPT ![key] = 1 - @]
           s1 == [win[w] EXCEPT !.meta[handle] = value, !.hEdited = TRUE]
       IN  win' = [win EXCEPT ![w] = vuexFieldMetaHasBeenSet(s1, handle, value)]
    /\ events' = Spend(w, "meta")
    /\ UNCHANGED <<userOf, net, snaps, http, cache>>

\* `await this.loadCachedState(source)` and what follows it, as one step of
\* window w from the Workspace s; out0 are whispers already sent in the step
CallLoad(w, s, source, handle, out0) ==
    IF loadSkips(s, source)
    THEN LET r == afterLoad(s, w, source, handle)
         IN  /\ win' = [win EXCEPT ![w] = r.s]
             /\ net' = net \cup Sent(w, out0 \o r.out)
             /\ http' = http
    ELSE /\ win' = [win EXCEPT ![w] = loadBegin(s)]
         /\ net' = net \cup Sent(w, out0)
         /\ http' = http \cup {Req(w, "GET", source, handle, NoBody)}

\* The tab was hidden and becomes visible again: the visibilitychange
\* handler runs with wasHidden set (the socket is connected)
Show(w) ==
    /\ UserAt(w, "show")
    /\ IF win[w].sinceLocalChange < localChangeProtectionMs
       THEN UNCHANGED <<win, net, http>>
       ELSE CallLoad(w, win[w], "visibilityHandler", NoField, <<>>)
    /\ events' = Spend(w, "show")
    /\ UNCHANGED <<userOf, snaps, cache>>

RECURSIVE cancelAll(_, _)
cancelAll(s, handles) ==
    IF handles = {} THEN s
    ELSE LET h == CHOOSE x \in handles : TRUE
         IN  cancelAll(cancelPendingUnlock(s, h), handles \ {h})

\* destroy(), as one step of window w
DestroyNow(w) ==
    /\ LET u == userOf[w]
           s1 == clearFieldInactivityTimer(stopSyncInterval(clearActivityTimer(win[w])))
           s2 == cancelAll(s1, Fields)
           handle == s2.currentFocusedField
           s3 == IF handle # NoField
                 THEN blur([s2 EXCEPT !.currentFocusedField = NoField], u)
                 ELSE s2
           out1 == IF handle # NoField THEN whisper(s3, Msg("blur", u, handle, w), FALSE) ELSE <<>>
           s4 == IF s3.hasPendingChanges THEN persistBegin(s3) ELSE s3
           reqs == IF s3.hasPendingChanges
                   THEN {Req(w, "POST", "destroy", NoField, [values |-> s3.values, meta |-> s3.meta])}
                   ELSE {}
           out2 == <<Msg("window-left", u, NoField, w)>>
           s5 == [s4 EXCEPT !.activeWindows = @ \ {w}, !.destroyed = TRUE]
           leaving == IF \E v \in Listeners \ {w} : userOf[v] = u THEN <<>>
                      ELSE <<Msg("leaving", u, NoField, "server")>>
       IN  /\ win' = [win EXCEPT ![w] = s5]
           /\ net' = {x \in net : x.to # w} \cup Sent(w, out1 \o out2 \o leaving)
                         \cup postMessage(w, "local-window-left")
           /\ snaps' = {x \in snaps : x.to # w}
           /\ http' = http \cup reqs
    /\ UNCHANGED <<userOf, cache>>

\* the window navigates away or closes the entry
Destroy(w) ==
    /\ UserAt(w, "destroy")
    /\ DestroyNow(w)
    /\ events' = Spend(w, "destroy")

\* ------------------------------------------------------------- hooks
\* the entry.saved hook, for this entry: clearCachedState() is started and
\* not awaited, the 'saved' whisper is forced
Saved(w) ==
    /\ UserAt(w, "hook")
    /\ http' = http \cup {Req(w, "DELETE", "entry.saved", NoField, NoBody)}
    /\ net' = net \cup Sent(w, whisper(win[w], Msg("saved", userOf[w], NoField, w), TRUE))
    /\ win' = [win EXCEPT ![w] = markSaved(@)]
    /\ events' = Spend(w, "hook")
    /\ UNCHANGED <<userOf, snaps, cache>>

\* the entry.published hook
Published(w) ==
    /\ UserAt(w, "hook")
    /\ net' = net \cup Sent(w, whisper(win[w], Msg("published", userOf[w], NoField, w), TRUE))
    /\ events' = Spend(w, "hook")
    /\ UNCHANGED <<userOf, win, snaps, http, cache>>

\* the revision.restored hook
RevisionRestored(w) ==
    /\ UserAt(w, "hook")
    /\ net' = net \cup Sent(w, whisper(win[w], Msg("revision-restored", userOf[w], NoField, w), TRUE))
    /\ events' = Spend(w, "hook")
    /\ UNCHANGED <<userOf, win, snaps, http, cache>>

\* ------------------------------------------------ whispers received
\* whisper x is the next one of its sender that reaches window w
Recv(w, x) ==
    /\ x \in net /\ x.to = w /\ Alive(w)
    /\ \A y \in Queued(x.m.from, w) : x.n <= y.n

\* (history) a presence whisper of window id has been received: "in" for
\* window-joined and window-present, "out" for window-left
notePresence(s, id, kind) == [s EXCEPT !.hSeen = {p \in @ : p[1] # id} \cup {<<id, kind>>}]

\* A window-left listener that keeps the window in activeWindows.
windowLeftKeeping(s, windowId) == s

\* what the window-joined and window-present listeners do to the window
windowArrived(s, windowId) == [s EXCEPT !.activeWindows = @ \cup {windowId}]

\* what the window-left listener does to the window
windowLeft(s, windowId) == [s EXCEPT !.activeWindows = @ \ {windowId}]

RecvWindowJoined(w, x) ==
    /\ Recv(w, x) /\ x.m.type = "window-joined"
    /\ IF x.m.from = w
       THEN /\ win' = [win EXCEPT ![w] = notePresence(@, w, "in")]
            /\ net' = net \ {x}
            /\ snaps' = snaps
       ELSE /\ win' = [win EXCEPT ![w] = notePresence(windowArrived(@, x.m.from), x.m.from, "in")]
            /\ net' = (net \ {x}) \cup Sent(w, <<Msg("window-present", userOf[w], NoField, w)>>)
            /\ snaps' = snaps \cup
                  {[to |-> v, from |-> w, values |-> win[w].values,
                    meta |-> cleanEntireMetaPayload(win[w].meta), focus |-> win[w].focus]
                   : v \in {x.m.from} \cap Listeners}
    /\ UNCHANGED <<userOf, http, cache, events>>

RecvWindowPresent(w, x) ==
    /\ Recv(w, x) /\ x.m.type = "window-present"
    /\ win' = [win EXCEPT ![w] = notePresence(IF x.m.from = w THEN @ ELSE windowArrived(@, x.m.from),
                                              x.m.from, "in")]
    /\ net' = net \ {x}
    /\ UNCHANGED <<userOf, snaps, http, cache, events>>

RecvWindowLeft(w, x) ==
    /\ Recv(w, x) /\ x.m.type = "window-left"
    /\ win' = [win EXCEPT ![w] = notePresence(IF x.m.from = w THEN @ ELSE windowLeft(@, x.m.from),
                                              x.m.from, "out")]
    /\ net' = net \ {x}
    /\ UNCHANGED <<userOf, snaps, http, cache, events>>

\* channel.joining
RecvJoining(w, x) ==
    /\ Recv(w, x) /\ x.m.type = "joining"
    /\ win' = [win EXCEPT ![w].users = @ \cup {x.m.user}]
    /\ net' = net \ {x}
    /\ UNCHANGED <<userOf, snaps, http, cache, events>>

\* channel.leaving
RecvLeaving(w, x) ==
    /\ Recv(w, x) /\ x.m.type = "leaving"
    /\ win' = [win EXCEPT ![w] =
                  blurAndUnlock([@ EXCEPT !.users = @ \ {x.m.user}], x.m.user, NoField)]
    /\ net' = net \ {x}
    /\ UNCHANGED <<userOf, snaps, http, cache, events>>

\* the window after the sync-now listener has called loadCachedState, up to
\* the fetch
syncNowListener(s) == IF loadSkips(s, "sync-now") THEN s ELSE loadBegin(s)

RecvSyncNow(w, x) ==
    /\ Recv(w, x) /\ x.m.type = "sync-now"
    /\ IF x.m.from = w THEN UNCHANGED <<win, http>>
       ELSE /\ win' = [win EXCEPT ![w] = syncNowListener(@)]
            /\ http' = IF loadSkips(win[w], "sync-now") THEN http
                       ELSE http \cup {Req(w, "GET", "sync-now", NoField, NoBody)}
    /\ net' = net \ {x}
    /\ UNCHANGED <<userOf, snaps, cache, events>>

\* A focus listener that locks for every user, the window's own included.
focusListenerLockingAll(s, me, m) ==
    focusAndLock(cancelPendingUnlock(s, m.handle), m.user, m.handle)

\* the body of the 'focus' listener, in a window of user me
focusListener(s, me, m) ==
    LET s1 == cancelPendingUnlock(s, m.handle)
    IN  IF m.user = me
        THEN focus(s1, m.user, m.handle)
        ELSE focusAndLock(s1, m.user, m.handle)

RecvFocus(w, x) ==
    /\ Recv(w, x) /\ x.m.type = "focus"
    /\ win' = [win EXCEPT ![w] = IF x.m.from = w THEN @ ELSE focusListener(@, userOf[w], x.m)]
    /\ net' = net \ {x}
    /\ UNCHANGED <<userOf, snaps, http, cache, events>>

\* the body of the 'blur' listener, in a window of user me
blurListener(s, me, m) ==
    LET s1 == blur(s, m.user)
    IN  IF m.user = me \/ m.handle = NoField
        THEN s1
        ELSE scheduleDelayedUnlock(s1, m.handle)

RecvBlur(w, x) ==
    /\ Recv(w, x) /\ x.m.type = "blur"
    /\ win' = [win EXCEPT ![w] = IF x.m.from = w THEN @ ELSE blurListener(@, userOf[w], x.m)]
    /\ net' = net \ {x}
    /\ UNCHANGED <<userOf, snaps, http, cache, events>>

\* the 'saved' listener: it updates the save status of the window
RecvSaved(w, x) ==
    /\ Recv(w, x) /\ x.m.type = "saved"
    /\ win' = [win EXCEPT ![w] = markSaved(@)]
    /\ net' = net \ {x}
    /\ UNCHANGED <<userOf, snaps, http, cache, events>>

\* the 'published' and 'revision-restored' listeners: a blocking
\* notification, then destroy()
RecvReload(w, x) ==
    /\ Recv(w, x) /\ x.m.type \in {"published", "revision-restored"}
    /\ IF x.m.from = w
       THEN net' = net \ {x} /\ UNCHANGED <<userOf, win, snaps, http, cache>>
       ELSE DestroyNow(w)
    /\ UNCHANGED events

\* localChannel.onmessage
RecvLocal(w, x) ==
    /\ x \in net /\ x.to = w /\ ~win[w].destroyed /\ x.m.type \in LocalTypes
    /\ \A y \in LocalQueued(x.m.from, w) : x.n <= y.n
    /\ IF x.m.from = w THEN UNCHANGED win /\ net' = net \ {x}
       ELSE CASE x.m.type = "local-window-joined" ->
                   /\ win' = [win EXCEPT ![w].localWindows = @ \cup {x.m.from}]
                   /\ net' = (net \ {x}) \cup postMessage(w, "local-window-present")
              [] x.m.type = "local-window-present" ->
                   /\ win' = [win EXCEPT ![w].localWindows = @ \cup {x.m.from}]
                   /\ net' = net \ {x}
              [] x.m.type = "local-window-left" ->
                   /\ win' = [win EXCEPT ![w].localWindows = @ \ {x.m.from}]
                   /\ net' = net \ {x}
    /\ UNCHANGED <<userOf, snaps, http, cache, events>>

\* the order in which _.each visits the entries of a focus map
UserOrder == <<"A", "B", "C">>

RECURSIVE lockFocused(_, _, _, _)
\* _.each(payload.focus, ...) of the initialize-state listener, from entry i on
lockFocused(s, me, focusMap, i) ==
    IF i > Len(UserOrder) THEN s
    ELSE LET u == UserOrder[i]
         IN  lockFocused(IF focusMap[u] # NoField /\ u # me
                         THEN focusAndLock(s, u, focusMap[u])
                         ELSE s,
                         me, focusMap, i + 1)

\* the merge of the initialize-state listener (under applyingBroadcast)
applySnapshot(s, p) ==
    LET restoredMeta == restoreEntireMetaPayload(s, p.meta)
    IN  [s EXCEPT !.values = Spread(s.values, p.values),
                  !.meta = [h \in DOMAIN s.meta |->
                               IF h \in DOMAIN restoredMeta
                               THEN Spread(s.meta[h], restoredMeta[h])
                               ELSE s.meta[h]]]

\* the initialize-state-for-window-<windowId> listener: the merge under
\* applyingBroadcast, the finally block, then the focus locks
initializeState(s, me, p) ==
    IF s.sinceLocalChange < localChangeProtectionMs THEN s
    ELSE lockFocused([applySnapshot(s, p) EXCEPT !.applyingBroadcast = FALSE], me, p.focus, 1)

\* the same listener when a store commit of the merge throws, at the first
\* commit (nothing merged) or at the second (the values merged): the
\* finally block runs, the exception leaves the listener before the locks
initializeStateThrowing(s, p, at) ==
    IF s.sinceLocalChange < localChangeProtectionMs THEN s
    ELSE IF at = "setValues" THEN [s EXCEPT !.applyingBroadcast = FALSE]
    ELSE [s EXCEPT !.values = Spread(s.values, p.values), !.applyingBroadcast = FALSE]

RecvInitState(w, p) ==
    /\ p \in snaps /\ p.to = w /\ Alive(w)
    /\ win' = [win EXCEPT ![w] = IF p.from = w THEN @ ELSE initializeState(@, userOf[w], p)]
    /\ snaps' = snaps \ {p}
    /\ UNCHANGED <<userOf, net, http, cache, events>>

\* the snapshot reaches the listener and a commit of its merge throws
RecvInitStateThrows(w, p, at) ==
    /\ p \in snaps /\ p.to = w /\ Alive(w) /\ p.from # w
    /\ win[w].sinceLocalChange >= localChangeProtectionMs
    /\ win' = [win EXCEPT ![w] = initializeStateThrowing(@, p, at)]
    /\ snaps' = snaps \ {p}
    /\ UNCHANGED <<userOf, net, http, cache, events>>

\* --------------------------------------------------- cache service
\* The server handles a request: StateController::show / update
Serve(r) ==
    /\ r \in http /\ r.phase = "req"
    /\ \/ /\ r.kind = "GET"
          /\ http' = (http \ {r}) \cup {[r EXCEPT !.phase = "ok", !.data = show(cache)]}
          /\ cache' = cache
       \/ /\ r.kind = "POST"
          /\ http' = (http \ {r}) \cup {[r EXCEPT !.phase = "ok"]}
          /\ cache' = update(cache, r.body)
       \/ /\ r.kind = "DELETE"
          /\ http' = (http \ {r}) \cup {[r EXCEPT !.phase = "ok"]}
          /\ cache' = destroyEntry(cache)
    /\ UNCHANGED <<userOf, win, net, snaps, events>>

\* StateController: abort(403), the request comes without a logged-in user
\* (the session has expired); the cache is not touched
Refuse(r) ==
    /\ r \in http /\ r.phase = "req"
    /\ http' = (http \ {r}) \cup {[r EXCEPT !.phase = "forbidden"]}
    /\ UNCHANGED <<userOf, win, net, snaps, cache, events>>

\* fetch() rejects: the request does not get through
NetworkError(r) ==
    /\ r \in http /\ r.phase = "req"
    /\ http' = (http \ {r}) \cup {[r EXCEPT !.phase = "thrown"]}
    /\ UNCHANGED <<userOf, win, net, snaps, cache, events>>

\* the answer of a GET reaches loadCachedState
LoadDone(r) ==
    /\ r \in http /\ r.kind = "GET" /\ r.phase # "req"
    /\ LET s1 == loadApply(win[r.w], r.phase = "ok", r.data)
           res == afterLoad(s1, r.w, r.src, r.handle)
       IN  /\ win' = [win EXCEPT ![r.w] = res.s]
           /\ net' = net \cup Sent(r.w, res.out)
    /\ http' = http \ {r}
    /\ UNCHANGED <<userOf, snaps, cache, events>>

\* the answer of a DELETE reaches clearCachedState, which looks at nothing
\* of it and catches a rejection
ClearDone(r) ==
    /\ r \in http /\ r.kind = "DELETE" /\ r.phase # "req"
    /\ win' = [v \in wins |->
                  IF r.phase # "ok" THEN win[v]
                  ELSE [win[v] EXCEPT !.hEdited = FALSE, !.hCleared = @ \/ v = r.w]]
    /\ http' = http \ {r}
    /\ UNCHANGED <<userOf, net, snaps, cache, events>>

\* a successful answer reaches loadCachedState and its merge throws
LoadThrows(r, at) ==
    /\ r \in http /\ r.kind = "GET" /\ r.phase = "ok" /\ r.data.exists
    /\ IF at = "setValues" THEN DOMAIN r.data.values # {} ELSE DOMAIN r.data.meta # {}
    /\ LET s1 == loadApplyThrowing(win[r.w], r.data, at)
           res == afterLoad(s1, r.w, r.src, r.handle)
       IN  /\ win' = [win EXCEPT ![r.w] = res.s]
           /\ net' = net \cup Sent(r.w, res.out)
    /\ http' = http \ {r}
    /\ UNCHANGED <<userOf, snaps, cache, events>>

\* the answer of a POST reaches persistAllChanges
PersistDone(r) ==
    /\ r \in http /\ r.kind = "POST" /\ r.phase # "req"
    /\ LET s1 == persistEnd(win[r.w], r.phase = "ok")
           res == afterPersist(s1, r.w, r.src, r.handle)
       IN  /\ win' = [win EXCEPT ![r.w] = res.s]
           /\ net' = net \cup Sent(r.w, res.out)
    /\ http' = http \ {r}
    /\ UNCHANGED <<userOf, snaps, cache, events>>


\* ------------------------------------------------- chunked whispers
\* A payload is an array of numbers; its JSON text is a sequence of characters.
DigitChar == <<"0", "1", "2", "3", "4", "5", "6", "7", "8", "9">>

Payloads == UNION {[1..n -> Val] : n \in 0..MaxItems}

RECURSIVE items(_)
\* the entries of an array, separated by commas
items(payload) ==
    IF Len(payload) = 0 THEN <<>>
    ELSE IF Len(payload) = 1 THEN <<DigitChar[payload[1] + 1]>>
    ELSE <<DigitChar[payload[1] + 1], ",">> \o items(Tail(payload))

\* JSON.stringify(payload)
stringify(payload) == <<"[">> \o items(payload) \o <<"]">>

\* what JSON.parse throws
SyntaxError == [ok |-> FALSE, value |-> <<>>]

IsDigit(c) == \E d \in 1..Len(DigitChar) : DigitChar[d] = c

DigitOf(c) == (CHOOSE d \in 1..Len(DigitChar) : DigitChar[d] = c) - 1

\* JSON.parse(str): the array, or SyntaxError for a text that is no array of numbers
parse(str) ==
    LET n == Len(str)
        inner == IF n >= 2 THEN SubSeq(str, 2, n - 1) ELSE <<>>
        k == Len(inner)
        wellFormed ==
            /\ n >= 2 /\ str[1] = "[" /\ str[n] = "]"
            /\ k = 0 \/ k % 2 = 1
            /\ \A i \in 1..k : IF i % 2 = 1 THEN IsDigit(inner[i]) ELSE inner[i] = ","
    IN  IF wellFormed
        THEN [ok |-> TRUE, value |-> [i \in 1..((k + 1) \div 2) |-> DigitOf(inner[2 * i - 1])]]
        ELSE SyntaxError

\* str.slice(from, to), positions counted from 0
slice(str, from, to) == SubSeq(str, from + 1, Min(to, Len(str)))

\* the number of chunks the loop `for (i = 0; i * chunkSize < str.length; i++)` sends
chunkCount(str) == (Len(str) + ChunkLen - 1) \div ChunkLen

\* whisper(event, payload, {force}) with message id msgId: the whispers sent
whisperPayload(s, payload, msgId, from, force) ==
    LET str == stringify(payload)
    IN  IF ~force /\ isAlone(s) THEN {}
        ELSE IF Len(str) < ChunkLen
        THEN {[type |-> "direct", id |-> msgId, payload |-> payload, from |-> from]}
        ELSE {[type |-> "chunked", id |-> msgId, index |-> i,
               chunk |-> slice(str, i * ChunkLen, (i + 1) * ChunkLen),
               final |-> (ChunkLen * (i + 1) >= Len(str)), from |-> from]
              : i \in 0..(chunkCount(str) - 1)}

\* e.chunks.length of a sparse array: one more than its highest index
length(chunks) ==
    IF DOMAIN chunks = {} THEN 0
    ELSE 1 + CHOOSE i \in DOMAIN chunks : \A j \in DOMAIN chunks : j <= i

RECURSIVE join(_, _)
\* e.chunks.join(''), from index i on: a hole joins as the empty string
join(chunks, i) ==
    IF i >= length(chunks) THEN <<>>
    ELSE (IF i \in DOMAIN chunks THEN chunks[i] ELSE <<>>) \o join(chunks, i + 1)

NoChunks == [i \in {} |-> <<>>]

\* A listener that does not wait for the chunks before the final one.
chunkListenerNoGapCheck(s, data) ==
    LET old == IF data.id \in DOMAIN s.chunkEvents THEN s.chunkEvents[data.id]
               ELSE [chunks |-> NoChunks, receivedFinal |-> FALSE]
        e == [chunks |-> Spread(old.chunks, [i \in {data.index} |-> data.chunk]),
              receivedFinal |-> old.receivedFinal \/ data.final]
    IN  IF e.receivedFinal
        THEN [s EXCEPT !.hDelivered = Append(@, [id |-> data.id, payload |-> parse(join(e.chunks, 0)).value]),
                       !.chunkEvents = [i \in (DOMAIN @) \ {data.id} |-> @[i]]]
        ELSE [s EXCEPT !.chunkEvents = Spread(@, [i \in {data.id} |-> e])]

\* A listener that keeps a message's chunks after it has called back.
chunkListenerKeeping(s, data) ==
    LET old == IF data.id \in DOMAIN s.chunkEvents THEN s.chunkEvents[data.id]
               ELSE [chunks |-> NoChunks, receivedFinal |-> FALSE]
        e == [chunks |-> Spread(old.chunks, [i \in {data.index} |-> data.chunk]),
              receivedFinal |-> old.receivedFinal \/ data.final]
        s1 == [s EXCEPT !.chunkEvents = Spread(@, [i \in {data.id} |-> e])]
    IN  IF e.receivedFinal /\ length(e.chunks) = Cardinality(DOMAIN e.chunks)
           /\ parse(join(e.chunks, 0)).ok
        THEN [s1 EXCEPT !.hDelivered = Append(@, [id |-> data.id, payload |-> parse(join(e.chunks, 0)).value])]
        ELSE s1

\* the `chunked-<event>` listener of listenForWhisper; the callback's calls
\* are recorded in hDelivered.  JSON.parse throws on a text that is no JSON:
\* then neither the callback nor the delete runs.
chunkListener(s, data) ==
    LET old == IF data.id \in DOMAIN s.chunkEvents THEN s.chunkEvents[data.id]
               ELSE [chunks |-> NoChunks, receivedFinal |-> FALSE]
        e == [chunks |-> Spread(old.chunks, [i \in {data.index} |-> data.chunk]),
              receivedFinal |-> old.receivedFinal \/ data.final]
        s1 == [s EXCEPT !.chunkEvents = Spread(@, [i \in {data.id} |-> e])]
    IN  IF e.receivedFinal /\ length(e.chunks) = Cardinality(DOMAIN e.chunks)
           /\ parse(join(e.chunks, 0)).ok
        THEN [s EXCEPT !.hDelivered = Append(@, [id |-> data.id, payload |-> parse(join(e.chunks, 0)).value]),
                       !.chunkEvents = [i \in (DOMAIN @) \ {data.id} |-> @[i]]]
        ELSE s1

\* the id Math.random() gives the next message: one not used before
NextId == MaxMsgs - events.msgs + 1

\* window w whispers a payload through whisper()
WhisperPayload(w, payload) ==
    /\ Alive(w) /\ events.msgs > 0
    /\ LET out == whisperPayload(win[w], payload, NextId, w, FALSE)
       IN  /\ net' = net \cup {[to |-> v, m |-> m, todo |-> 1, done |-> 0] :
                                  v \in Listeners \ {w}, m \in out}
           /\ win' = [win EXCEPT ![w].hSent = @ \cup {[id |-> NextId, payload |-> payload]}]
    /\ events' = [events EXCEPT !.msgs = @ - 1]
    /\ UNCHANGED <<userOf, snaps, http, cache>>

\* a chunk reaches the `chunked-<event>` listener of window w, in any order
RecvChunk(w, x) ==
    /\ x \in net /\ x.to = w /\ Alive(w) /\ x.todo > 0 /\ x.m.type = "chunked"
    /\ win' = [win EXCEPT ![w] = chunkListener(@, x.m)]
    /\ net' = (net \ {x}) \cup {[x EXCEPT !.todo = @ - 1, !.done = @ + 1]}
    /\ UNCHANGED <<userOf, snaps, http, cache, events>>

\* a small payload reaches the listener registered for the event itself
RecvDirect(w, x) ==
    /\ x \in net /\ x.to = w /\ Alive(w) /\ x.todo > 0 /\ x.m.type = "direct"
    /\ win' = [win EXCEPT ![w].hDelivered = Append(@, [id |-> x.m.id, payload |-> x.m.payload])]
    /\ net' = (net \ {x}) \cup {[x EXCEPT !.todo = @ - 1, !.done = @ + 1]}
    /\ UNCHANGED <<userOf, snaps, http, cache, events>>

\* the network delivers a chunk that is not the final one once more
DupChunk(x) ==
    /\ x \in net /\ x.m.type = "chunked" /\ ~x.m.final /\ events.dups > 0
    /\ net' = (net \ {x}) \cup {[x EXCEPT !.todo = @ + 1]}
    /\ events' = [events EXCEPT !.dups = @ - 1]
    /\ UNCHANGED <<userOf, win, snaps, http, cache>>

\* ------------------------------------------------------------ timers
\* the setInterval callback of startSyncInterval
SyncTick(w) ==
    /\ win[w].syncIntervalTimer = 0
    /\ LET s1 == [win[w] EXCEPT !.syncIntervalTimer = syncInterval]
       IN  IF s1.hasPendingChanges
           THEN /\ win' = [win EXCEPT ![w] = persistBegin(s1)]
                /\ http' = http \cup
                     {Req(w, "POST", "syncInterval", NoField, [values |-> s1.values, meta |-> s1.meta])}
           ELSE /\ win' = [win EXCEPT ![w] = s1]
                /\ http' = http
    /\ UNCHANGED <<userOf, net, snaps, cache, events>>

\* the setTimeout callback of scheduleDelayedUnlock
UnlockTimer(w, handle) ==
    /\ win[w].pendingFieldUnlocks[handle] = 0
    /\ CallLoad(w, [win[w] EXCEPT !.pendingFieldUnlocks[handle] = Fired],
                "before-unlock", handle, <<>>)
    /\ UNCHANGED <<userOf, snaps, cache, events>>

\* the same callback, of a timer pendingFieldUnlocks has forgotten
OrphanUnlockTimer(w, t) ==
    /\ t \in win[w].orphanUnlocks /\ t.left = 0
    /\ CallLoad(w, [win[w] EXCEPT !.orphanUnlocks = @ \ {t}], "before-unlock", t.handle, <<>>)
    /\ UNCHANGED <<userOf, snaps, cache, events>>

\* the setTimeout callback that ends the warm-up period
WarmUpEnd(w) ==
    /\ win[w].warmUpTimer = 0
    /\ win' = [win EXCEPT ![w].warmUpTimer = NoTimer, ![w].warmUpPeriod = FALSE]
    /\ UNCHANGED <<userOf, net, snaps, http, cache, events>>

\* the setTimeout callback of resetFieldInactivityTimer, and autoUnlockField
FieldInactivity(w) ==
    /\ win[w].fieldInactivityTimer = 0
    /\ LET handle == win[w].currentFocusedField
           s0 == [win[w] EXCEPT !.fieldInactivityTimer = NoTimer]
           s1 == clearFieldInactivityTimer(stopSyncInterval(s0))
           s2 == [s1 EXCEPT !.currentFocusedField = NoField]
       IN  IF handle = NoField
           THEN win' = [win EXCEPT ![w] = s0] /\ UNCHANGED <<net, http>>
           ELSE IF s2.hasPendingChanges
           THEN /\ win' = [win EXCEPT ![w] = persistBegin(s2)]
                /\ http' = http \cup
                      {Req(w, "POST", "autoUnlock", handle, [values |-> s2.values, meta |-> s2.meta])}
                /\ net' = net
           ELSE LET r == autoUnlockTail(s2, w, handle)
                IN  /\ win' = [win EXCEPT ![w] = r.s]
                    /\ net' = net \cup Sent(w, r.out)
                    /\ http' = http
    /\ UNCHANGED <<userOf, snaps, cache, events>>

\* -------------------------------------------------------------- time
Down(t, d) == IF t > 0 THEN Max(0, t - d) ELSE t

Age(a, d) == Min(localChangeProtectionMs, a + d)

\* the interval timer re-arms itself: its phase after d, had its idle
\* callbacks (nothing pending) run meanwhile
DownInterval(t, d) == IF t > 0 THEN (syncInterval - ((d - t) % syncInterval)) % syncInterval ELSE t

Elapse(s, d) ==
    [s EXCEPT !.sinceLocalChange = Age(@, d),
              !.hEditAge = [f \in Fields |-> Age(@[f], d)],
              !.warmUpTimer = Down(@, d),
              !.syncIntervalTimer = IF d <= @ THEN Down(@, d) ELSE DownInterval(@, d),
              !.fieldInactivityTimer = Down(@, d),
              !.autoUnlockNotice = Max(0, @ - d),
              !.pendingFieldUnlocks = [f \in Fields |-> Down(@[f], d)],
              !.orphanUnlocks = {[t EXCEPT !.left = Down(@, d)] : t \in @}]

Due(s) ==
    \/ s.warmUpTimer = 0 \/ s.syncIntervalTimer = 0 \/ s.fieldInactivityTimer = 0
    \/ \E f \in Fields : s.pendingFieldUnlocks[f] = 0
    \/ \E t \in s.orphanUnlocks : t.left = 0

\* something of the Workspace changes within the next seconds
Busy(s) ==
    \/ s.sinceLocalChange < localChangeProtectionMs
    \/ \E f \in Fields : s.hEditAge[f] < localChangeProtectionMs
    \/ s.warmUpTimer > 0
    \/ s.syncIntervalTimer > 0 /\ s.hasPendingChanges
    \/ \E f \in Fields : s.pendingFieldUnlocks[f] > 0
    \/ s.orphanUnlocks # {}

\* the time to the next field inactivity callback, when nothing else is running
Idle == {win[w].fieldInactivityTimer : w \in {v \in wins : win[v].fieldInactivityTimer > 0}}

Step ==
    IF http # {} \/ (\E w \in wins : Busy(win[w])) \/ Idle = {}
    THEN TickMs
    ELSE CHOOSE d \in Idle : \A e \in Idle : d <= e

\* Time passes: TickMs, or, when only field inactivity timers are running,
\* the time to the first of them.  A due callback, and a request at its
\* timeout, come first; a whisper is on its way for less than TickMs.
Tick ==
    /\ \A w \in wins : ~Due(win[w])
    /\ \A r \in http : r.left >= Step
    /\ net = {} /\ snaps = {}
    /\ win' = [w \in wins |-> Elapse(win[w], Step)]
    /\ http' = {[r EXCEPT !.left = Down(@, Step)] : r \in http}
    /\ <<win', http'>> # <<win, http>>
    /\ UNCHANGED <<userOf, net, snaps, cache, events>>

\* fetchWithTimeout: the request has been out for apiTimeout without an
\* answer reaching the window; controller.abort() makes fetch() reject.  The
\* rest of the timeout passes first; a timer that comes due meanwhile runs
\* its callback after the abort (a timer callback may run late).
Timeout(r) ==
    /\ r \in http /\ r.phase # "thrown" /\ r.left < TickMs
    /\ \A q \in http : r.left <= q.left
    /\ \A w \in wins : ~Due(win[w])
    /\ net = {} /\ snaps = {}
    /\ win' = [w \in wins |-> Elapse(win[w], r.left)]
    /\ http' = {IF q = r THEN [q EXCEPT !.phase = "thrown", !.left = 0]
                         ELSE [q EXCEPT !.left = Down(@, r.left)] : q \in http}
    /\ UNCHANGED <<userOf, net, snaps, cache, events>>

\* ----------------------------------------------------- specification
\* The first window has joined alone, some time ago.
JoinedAlone(w, u) ==
    [NewWorkspace EXCEPT !.joined = TRUE, !.users = {u}, !.activeWindows = {w},
                         !.warmUpPeriod = FALSE, !.inactivityTimer = TRUE]

\* The windows of a session have joined one after the other, some time ago.
Joined(w, session) ==
    [JoinedAlone(w, session[w]) EXCEPT !.users = {session[v] : v \in DOMAIN session},
                                       !.activeWindows = DOMAIN session,
                                       !.hSeen = {<<v, "in">> : v \in (DOMAIN session) \ {w}}]

Budget(fields, nFocus, nEdit, nMeta, nShow, nDestroy) ==
    [fields |-> fields, focus |-> nFocus, edit |-> nEdit, meta |-> nMeta,
     show |-> nShow, destroy |-> nDestroy]

InitWith(session, fresh, budget) ==
    /\ userOf = session
    /\ win = [w \in DOMAIN session |->
                 IF w \in fresh THEN NewWorkspace
                 ELSE Joined(w, [v \in (DOMAIN session) \ fresh |-> session[v]])]
    /\ net = {}
    /\ snaps = {}
    /\ http = {}
    /\ cache = NoData
    /\ events = budget

AB == [w \in {"w1", "w2"} |-> IF w = "w1" THEN "A" ELSE "B"]
ABC == [w \in {"w1", "w2", "w3"} |-> IF w = "w1" THEN "A" ELSE IF w = "w2" THEN "B" ELSE "C"]
W2(a, b) == [w \in {"w1", "w2"} |-> IF w = "w1" THEN a ELSE b]
W3(a, b, c) == [w \in {"w1", "w2", "w3"} |-> IF w = "w1" THEN a ELSE IF w = "w2" THEN b ELSE c]

\* the user at work: focus, typing, blur
Edits ==
    \/ \E w \in wins, h \in Fields : LocalFocus(w, h)
    \/ \E w \in wins : LocalBlur(w)
    \/ \E w \in wins, v \in Val : LocalEdit(w, v)

\* what the windows, the server and the clock do about it
Reactions ==
    \/ \E w \in wins, x \in net : RecvSyncNow(w, x)
    \/ \E w \in wins, x \in net : RecvFocus(w, x)
    \/ \E w \in wins, x \in net : RecvBlur(w, x)
    \/ \E r \in http : Serve(r)
    \/ \E r \in http : LoadDone(r)
    \/ \E w \in wins : SyncTick(w)
    \/ \E w \in wins, h \in Fields : UnlockTimer(w, h)
    \/ \E w \in wins : FieldInactivity(w)
    \/ Tick

\* One user edits, the window of another user follows.
Init ==
    InitWith(AB, {}, Budget(W2(Fields, {}), W2(MaxFocus, 0), W2(MaxEdits, 0),
                            W2(0, 0), W2(0, 0), W2(0, 0)))

Next ==
    \/ Edits
    \/ Reactions
    \/ \E r \in http : PersistDone(r)

Spec == Init /\ [][Next]_vars

\* The event loop runs a ready callback, the socket delivers, the server
\* answers: the reactions are not postponed for ever.
SpecFair == Spec /\ WF_vars(Reactions \/ \E r \in http : PersistDone(r))

\* Two users edit, each a field of their own.
InitDuo ==
    InitWith(AB, {}, Budget(W2({"title"}, {"body"}), W2(MaxFocus, MaxFocus), W2(DuoEdits, DuoEdits),
                            W2(0, 0), W2(0, 0), W2(0, 0)))

SpecDuo == InitDuo /\ [][Next]_vars

\* A window joins while the windows of two others focus the same field; the
\* two others are two remote users, or a remote user and the joiner's own user.
AAB == [w \in {"w1", "w2", "w3"} |-> IF w = "w3" THEN "B" ELSE "A"]

InitLock ==
    \E session \in {ABC, AAB} :
        InitWith(session, {"w1"},
                 Budget(W3({}, {"title"}, {"title"}), W3(0, 1, 1), W3(0, 0, 0),
                        W3(0, 0, 0), W3(0, 0, 0), W3(0, 0, 0)))

\* the first moments of that session: the handshake and the focus whispers
NextLock ==
    \/ \E w \in wins, h \in Fields : LocalFocus(w, h)
    \/ \E w \in wins, x \in net : RecvFocus(w, x)
    \/ \E w \in wins : Here(w)
    \/ \E w \in wins, x \in net : RecvWindowJoined(w, x)
    \/ \E w \in wins, x \in net : RecvWindowPresent(w, x)
    \/ \E w \in wins, x \in net : RecvJoining(w, x)
    \/ \E w \in wins, p \in snaps : RecvInitState(w, p)
    \/ \E r \in http : Serve(r)
    \/ \E r \in http : LoadDone(r)

SpecLock == InitLock /\ [][NextLock]_vars


\* One window whispers payloads of every size, the other reassembles them.
InitChunk ==
    /\ userOf = AB
    /\ win = [w \in DOMAIN AB |-> Joined(w, AB)]
    /\ net = {}
    /\ snaps = {}
    /\ http = {}
    /\ cache = NoData
    /\ events = [msgs |-> MaxMsgs, dups |-> MaxDups]

NextChunk ==
    \/ \E payload \in Payloads : WhisperPayload("w1", payload)
    \/ \E w \in wins, x \in net : RecvChunk(w, x)
    \/ \E w \in wins, x \in net : RecvDirect(w, x)
    \/ \E x \in net : DupChunk(x)

SpecChunk == InitChunk /\ [][NextChunk]_vars


\* the meta of a document whose title has the given value under key k1
MetaWith(v) == [InitMeta EXCEPT !["title"]["k1"] = v]

\* A window whose document, last-value caches and cached state are
\* arbitrary is told twice to reconcile, and gets a peer's snapshot.
InitMerge ==
    \E values \in [Fields -> Val], lastValues \in [Fields -> Val], k \in Val,
       cached \in [Fields -> Val], ck \in Val, peer \in [Fields -> Val] :
        /\ userOf = AB
        /\ win = [w \in DOMAIN AB |->
                     IF w = "w1"
                     THEN [Joined(w, AB) EXCEPT !.values = values, !.lastValues = lastValues,
                                                !.meta = MetaWith(k)]
                     ELSE [Joined(w, AB) EXCEPT !.values = peer, !.lastValues = peer,
                                                !.focus["B"] = "title"]]
        /\ net = {[to |-> "w1", m |-> Msg("sync-now", "B", NoField, "w2"), n |-> i] : i \in 1..2}
        /\ snaps = {[to |-> "w1", from |-> "w2", values |-> peer,
                     meta |-> cleanEntireMetaPayload(MetaWith(ck)),
                     focus |-> [u \in Users |-> IF u = "B" THEN "title" ELSE NoField]]}
        /\ http = {}
        /\ cache = [exists |-> TRUE, values |-> cached, meta |-> MetaWith(ck)]
        /\ events = Budget(W2({}, {}), W2(0, 0), W2(0, 0), W2(0, 0), W2(0, 0), W2(0, 0))

NextMerge ==
    \/ \E w \in wins, x \in net : RecvSyncNow(w, x)
    \/ \E w \in wins, p \in snaps : RecvInitState(w, p)
    \/ \E r \in http : Serve(r)
    \/ \E r \in http : LoadDone(r)

SpecMerge == InitMerge /\ [][NextMerge]_vars

\* A window with an arbitrary document is told to reconcile with a cached
\* state that holds some of the handles and, of the title's meta, some
\* of the keys.
InitOverlay ==
    \E values \in [Fields -> Val], k \in Val, ck \in Val,
       vh \in SUBSET Fields, mh \in SUBSET Fields, keys \in SUBSET {"k1", "k2"} :
        /\ userOf = AB
        /\ win = [w \in DOMAIN AB |->
                     IF w = "w1"
                     THEN [Joined(w, AB) EXCEPT !.values = values, !.lastValues = values,
                                                !.meta = MetaWith(k)]
                     ELSE [Joined(w, AB) EXCEPT !.focus["B"] = "title"]]
        /\ net = {[to |-> "w1", m |-> Msg("sync-now", "B", NoField, "w2"), n |-> i] : i \in 1..2}
        /\ snaps = {[to |-> "w1", from |-> "w2", values |-> InitValues,
                     meta |-> cleanEntireMetaPayload(MetaWith(ck)),
                     focus |-> [u \in Users |-> IF u = "B" THEN "title" ELSE NoField]]}
        /\ http = {}
        /\ cache = [exists |-> TRUE,
                    values |-> [h \in vh |-> ck],
                    meta |-> [h \in mh |->
                                 IF h = "title" THEN [x \in keys |-> ck]
                                 ELSE MetaWith(ck)[h]]]
        /\ events = Budget(W2({}, {}), W2(0, 0), W2(0, 0), W2(0, 0), W2(0, 0), W2(0, 0))

SpecOverlay == InitOverlay /\ [][NextMerge]_vars

\* A window joins a session in which the other window's user focuses,
\* types and blurs, while the cache service refuses requests, the network
\* loses them, answers come too late and merges throw.
InitFail ==
    InitWith(AB, {"w1"}, Budget(W2({}, {"title"}), W2(0, MaxFocus), W2(0, DuoEdits),
                                W2(0, 0), W2(0, 0), W2(0, 0)))

\* what can go wrong with a cache request or a merge
Outage ==
    \/ \E r \in http : Refuse(r)
    \/ \E r \in http : NetworkError(r)
    \/ \E r \in http : Timeout(r)

Failures ==
    \/ Outage
    \/ \E r \in http, at \in {"setValues", "setMeta"} : LoadThrows(r, at)
    \/ \E w \in wins, p \in snaps, at \in {"setValues", "setMeta"} : RecvInitStateThrows(w, p, at)

\* a window joins: the handshake of the windows
Arrival ==
    \/ \E w \in wins : Here(w)
    \/ \E w \in wins, x \in net : RecvWindowJoined(w, x)
    \/ \E w \in wins, x \in net : RecvWindowPresent(w, x)
    \/ \E w \in wins, p \in snaps : RecvInitState(w, p)
    \/ \E w \in wins : WarmUpEnd(w)

\* the same, when the window brings a user the channel did not have
Handshake ==
    \/ Arrival
    \/ \E w \in wins, x \in net : RecvJoining(w, x)

Departure ==
    \/ \E w \in wins : Destroy(w)
    \/ \E w \in wins, x \in net : RecvWindowLeft(w, x)
    \/ \E w \in wins, x \in net : RecvLeaving(w, x)

NextFail ==
    \/ Edits
    \/ Reactions
    \/ \E r \in http : PersistDone(r)
    \/ Handshake
    \/ Failures

SpecFail == InitFail /\ [][NextFail]_vars

\* One user types into a field, blurs it and closes the window while the
\* cache service refuses, loses or delays the requests.
InitRetry ==
    InitWith(AB, {}, Budget(W2({"title"}, {}), W2(1, 0), W2(DuoEdits, 0),
                            W2(0, 0), W2(0, 0), W2(1, 0)))

NextRetry ==
    \/ Edits
    \/ Reactions
    \/ \E r \in http : PersistDone(r)
    \/ Departure
    \/ Outage

SpecRetry == InitRetry /\ [][NextRetry]_vars

\* A second window of the same user opens, in the same browser or in
\* another one, while the user works in the first window, alone so far,
\* and saves, publishes or restores a revision there.
AA == [w \in {"w1", "w2"} |-> "A"]

InitAlone ==
    \E sameBrowser \in BOOLEAN :
        /\ userOf = AA
        /\ win = [w \in DOMAIN AA |->
                     [(IF w = "w1" THEN JoinedAlone(w, "A") ELSE NewWorkspace)
                         EXCEPT !.siblings = IF sameBrowser THEN (DOMAIN AA) \ {w} ELSE {}]]
        /\ net = IF sameBrowser
                 THEN {[to |-> "w1", m |-> Msg("local-window-joined", "A", NoField, "w2"), n |-> 1]}
                 ELSE {}
        /\ snaps = {}
        /\ http = {}
        /\ cache = NoData
        /\ events = Budget(W2({"title"}, {}), W2(MaxFocus, 0), W2(DuoEdits, 0),
                           W2(0, 0), W2(0, 0), W2(0, 0)) @@ [hook |-> W2(1, 0)]

\* the entry is saved, published or restored, and the windows hear of it
Hooks ==
    \/ \E w \in wins : Saved(w)
    \/ \E w \in wins : Published(w)
    \/ \E w \in wins : RevisionRestored(w)
    \/ \E w \in wins, x \in net : RecvSaved(w, x)
    \/ \E w \in wins, x \in net : RecvReload(w, x)
    \/ \E r \in http : ClearDone(r)

NextAlone ==
    \/ Edits
    \/ Reactions
    \/ \E r \in http : PersistDone(r)
    \/ Arrival
    \/ Hooks
    \/ \E w \in wins, x \in net : RecvLocal(w, x)
    \/ \E w \in wins, x \in net : RecvWindowLeft(w, x)

SpecAlone == InitAlone /\ [][NextAlone]_vars

\* Windows come and go: a second window arrives next to one that is alone,
\* as the same user in the same browser, as the same user elsewhere or as
\* another user, and either window may be closed.
InitPresence ==
    \E session \in {AA, AB}, sameBrowser \in BOOLEAN :
        /\ sameBrowser => session = AA
        /\ userOf = session
        /\ win = [w \in DOMAIN session |->
                     [(IF w = "w1" THEN JoinedAlone(w, session[w]) ELSE NewWorkspace)
                         EXCEPT !.siblings = IF sameBrowser THEN (DOMAIN session) \ {w} ELSE {}]]
        /\ net = IF sameBrowser
                 THEN {[to |-> "w1", m |-> Msg("local-window-joined", "A", NoField, "w2"), n |-> 1]}
                 ELSE {}
        /\ snaps = {}
        /\ http = {}
        /\ cache = NoData
        /\ events = Budget(W2({"title"}, {}), W2(1, 0), W2(1, 0),
                           W2(0, 0), W2(0, 0), W2(1, 1))

NextPresence ==
    \/ Edits
    \/ Reactions
    \/ \E r \in http : PersistDone(r)
    \/ Handshake
    \/ Departure
    \/ \E w \in wins, x \in net : RecvLocal(w, x)

SpecPresence == InitPresence /\ [][NextPresence]_vars

\* Two windows, of one user or of two: each user focuses and blurs a field,
\* a window is closed, and the whispers of all that arrive.
InitDup ==
    \E session \in {AA, AB} :
        InitWith(session, {},
                 Budget(W2({"title"}, {"title"}), W2(1, 1), W2(0, 0),
                        W2(0, 0), W2(0, 0), W2(0, 1)))

NextDup ==
    \/ \E w \in wins, h \in Fields : LocalFocus(w, h)
    \/ \E w \in wins : LocalBlur(w)
    \/ \E w \in wins, x \in net : RecvFocus(w, x)
    \/ \E w \in wins, x \in net : RecvBlur(w, x)
    \/ \E w \in wins, x \in net : RecvSyncNow(w, x)
    \/ \E r \in http : Serve(r)
    \/ \E r \in http : LoadDone(r)
    \/ \E w \in wins, h \in Fields : UnlockTimer(w, h)
    \/ \E w \in wins : Destroy(w)
    \/ \E w \in wins, x \in net : RecvWindowLeft(w, x)
    \/ Tick

SpecDup == InitDup /\ [][NextDup]_vars

\* A user focuses a field, leaves it and comes back to it, while the window
\* of another user holds the lock.
InitRefocus ==
    InitWith(AB, {}, Budget(W2({}, {"title"}), W2(0, 2), W2(0, 0),
                            W2(0, 0), W2(0, 0), W2(0, 0)))

NextRefocus ==
    \/ \E w \in wins, h \in Fields : LocalFocus(w, h)
    \/ \E w \in wins : LocalBlur(w)
    \/ Reactions
    \/ \E w \in wins : \E t \in win[w].orphanUnlocks : OrphanUnlockTimer(w, t)

SpecRefocus == InitRefocus /\ [][NextRefocus]_vars

\* A user types into a field and moves on to another field, while the
\* window of another user follows.
InitMove ==
    InitWith(AB, {}, Budget(W2(Fields, {}), W2(2, 0), W2(1, 0),
                            W2(0, 0), W2(0, 0), W2(0, 0)))

SpecMove == InitMove /\ [][Next]_vars

\* Two windows of one user and the window of another user, who is focused
\* in a field (the windows of the first user have locked it), leaves it and
\* may close the window; the first user may then focus the field in one
\* of their windows.
InitOwn ==
    /\ userOf = AAB
    /\ win = [w \in DOMAIN AAB |->
                 IF w = "w3"
                 THEN focus(resetFieldInactivityTimer(startSyncInterval(
                          [Joined(w, AAB) EXCEPT !.currentFocusedField = "title"])), "B", "title")
                 ELSE focusAndLock(Joined(w, AAB), "B", "title")]
    /\ net = {}
    /\ snaps = {}
    /\ http = {}
    /\ cache = NoData
    /\ events = Budget(W3({}, {"title"}, {}), W3(0, 1, 0), W3(0, 0, 0),
                       W3(0, 0, 0), W3(0, 0, 0), W3(0, 0, 1))

\* what the users do
ActOwn ==
    \/ \E w \in wins, h \in Fields : LocalFocus(w, h)
    \/ \E w \in wins : LocalBlur(w)
    \/ \E w \in wins : Destroy(w)

\* what the windows, the server and the clock do about it
ReactOwn ==
    \/ \E w \in wins, x \in net : RecvFocus(w, x)
    \/ \E w \in wins, x \in net : RecvBlur(w, x)
    \/ \E w \in wins, x \in net : RecvSyncNow(w, x)
    \/ \E w \in wins, x \in net : RecvWindowLeft(w, x)
    \/ \E w \in wins, x \in net : RecvLeaving(w, x)
    \/ \E r \in http : Serve(r)
    \/ \E r \in http : LoadDone(r)
    \/ \E w \in wins, h \in Fields : UnlockTimer(w, h)
    \/ \E w \in wins : FieldInactivity(w)
    \/ Tick

NextOwn == ActOwn \/ ReactOwn

\* The socket delivers, the server answers, due callbacks run and time
\* passes; the users do as they please.
SpecOwn == InitOwn /\ [][NextOwn]_vars /\ WF_vars(ReactOwn)

\* As SpecRefocus, with a user who leaves the field and comes back twice.
InitAgain ==
    InitWith(AB, {}, Budget(W2({}, {"title"}), W2(0, 3), W2(0, 0), W2(0, 0), W2(0, 0), W2(0, 0)))

SpecAgain == InitAgain /\ [][NextRefocus]_vars

\* ---------------------------------------------------- force-unlock
\* The status bar's 'unlock' event: the user picks one of the users it
\* lists (it lists them when there are several).
ForceUnlock(w, targetUser) ==
    /\ UserAt(w, "force")
    /\ Cardinality(win[w].users) > 1 /\ targetUser \in win[w].users
    /\ net' = net \cup Sent(w, whisper(win[w], Msg("force-unlock", targetUser, NoField, w), FALSE))
    /\ events' = Spend(w, "force")
    /\ UNCHANGED <<userOf, win, snaps, http, cache>>

\* the body of the 'force-unlock' listener in a window of user me: the
\* state it leaves and the whispers it sends. (document.activeElement.blur()
\* takes the keyboard from the element; a container 'blur' event that
\* follows from it is the step LocalBlur.)
forceUnlockListener(s, w, me, m) ==
    IF m.user # me THEN Result(s, <<>>)
    ELSE LET s1 == blurAndUnlock(s, me, NoField)
         IN  Result(s1, whisper(s1, Msg("blur", me, NoField, w), FALSE))

RecvForceUnlock(w, x) ==
    /\ Recv(w, x) /\ x.m.type = "force-unlock"
    /\ LET r == IF x.m.from = w THEN Result(win[w], <<>>)
                ELSE forceUnlockListener(win[w], w, userOf[w], x.m)
       IN  /\ win' = [win EXCEPT ![w] = r.s]
           /\ net' = (net \ {x}) \cup Sent(w, r.out)
    /\ UNCHANGED <<userOf, snaps, http, cache, events>>

\* Two windows of an administrator and a peer who is in a field: the
\* administrator unlocks a user from the status bar.
InitForce ==
    /\ userOf = AAB
    /\ win = [w \in DOMAIN AAB |->
                 IF w = "w3"
                 THEN focus(resetFieldInactivityTimer(startSyncInterval(
                          [Joined(w, AAB) EXCEPT !.currentFocusedField = "title"])), "B", "title")
                 ELSE focusAndLock(Joined(w, AAB), "B", "title")]
    /\ net = {}
    /\ snaps = {}
    /\ http = {}
    /\ cache = NoData
    /\ events = Budget(W3({}, {}, {"title"}), W3(0, 0, 0), W3(0, 0, 1),
                       W3(0, 0, 0), W3(0, 0, 0), W3(0, 0, 0)) @@ [force |-> W3(1, 0, 0)]

ActForce ==
    \/ \E w \in wins, u \in Users : ForceUnlock(w, u)
    \/ \E w \in wins, v \in Val : LocalEdit(w, v)
    \/ \E w \in wins : LocalBlur(w)

ReactForce ==
    \/ \E w \in wins, x \in net : RecvForceUnlock(w, x)
    \/ \E w \in wins, x \in net : RecvBlur(w, x)
    \/ \E w \in wins, x \in net : RecvSyncNow(w, x)
    \/ \E r \in http : Serve(r)
    \/ \E r \in http : PersistDone(r)
    \/ \E r \in http : LoadDone(r)
    \/ \E w \in wins, h \in Fields : UnlockTimer(w, h)
    \/ \E w \in wins : SyncTick(w)
    \/ \E w \in wins : FieldInactivity(w)
    \/ Tick

NextForce == ActForce \/ ReactForce

SpecForce == InitForce /\ [][NextForce]_vars /\ WF_vars(ReactForce)

\* ---------------------------------------------------- lost whispers
\* The transport loses a sync-now whisper on its way.
Drop(x) ==
    /\ x \in net /\ x.m.type = "sync-now"
    /\ events.drop > 0
    /\ net' = net \ {x}
    /\ events' = [events EXCEPT !.drop = @ - 1]
    /\ UNCHANGED <<userOf, win, snaps, http, cache>>

\* One user edits; the second window, of the same user or of another, only
\* follows, and its user may bring it back from the background once.
InitGap ==
    \E session \in {AA, AB} :
        /\ InitWith(session, {},
                    Budget(W2({"title"}, {}), W2(MaxFocus, 0), W2(DuoEdits, 0),
                           W2(0, 0), W2(0, 1), W2(0, 0)) @@ [drop |-> 1])

ActGap ==
    \/ Edits
    \/ \E w \in wins : Show(w)
    \/ \E x \in net : Drop(x)

ReactGap ==
    \/ Reactions
    \/ \E r \in http : PersistDone(r)
    \/ \E w \in wins, x \in net : RecvWindowJoined(w, x)
    \/ \E w \in wins, x \in net : RecvWindowPresent(w, x)
    \/ \E w \in wins, p \in snaps : RecvInitState(w, p)

NextGap == ActGap \/ ReactGap

\* The whispers that are not lost arrive, the server answers and due
\* callbacks run; what the users do and what the transport loses is open.
SpecGap == InitGap /\ [][NextGap]_vars /\ WF_vars(ReactGap)

\* ---------------------------------------------------------- new entry
\* Two users on an entry that has not been saved yet (initializeStore:
\* isNewEntry); one of them edits and may save.
InitNew ==
    /\ userOf = AB
    /\ win = [w \in DOMAIN AB |-> [Joined(w, AB) EXCEPT !.saveStatus = "notSaved"]]
    /\ net = {}
    /\ snaps = {}
    /\ http = {}
    /\ cache = NoData
    /\ events = Budget(W2({"title"}, {}), W2(MaxFocus, 0), W2(MaxEdits, 0),
                       W2(0, 0), W2(0, 0), W2(0, 0)) @@ [hook |-> W2(1, 0)]

NextNew ==
    \/ Edits
    \/ Reactions
    \/ \E r \in http : PersistDone(r)
    \/ \E w \in wins : Saved(w)
    \/ \E w \in wins, x \in net : RecvSaved(w, x)
    \/ \E r \in http : ClearDone(r)

SpecNew == InitNew /\ [][NextNew]_vars

\* ------------------------------------------------------ late joiner
\* A user is in a field, alone; a second user opens the entry and starts
\* to work in another field while the windows shake hands.
InitSnap ==
    /\ userOf = AB
    /\ win = [w \in DOMAIN AB |->
                 IF w = "w1"
                 THEN focus(resetFieldInactivityTimer(startSyncInterval(
                          [JoinedAlone(w, "A") EXCEPT !.currentFocusedField = "title"])), "A", "title")
                 ELSE NewWorkspace]
    /\ net = {}
    /\ snaps = {}
    /\ http = {}
    /\ cache = NoData
    /\ events = Budget(W2({}, {"body"}), W2(0, 1), W2(0, 1),
                       W2(0, 0), W2(0, 0), W2(0, 0))

NextSnap ==
    \/ Edits
    \/ Reactions
    \/ \E r \in http : PersistDone(r)
    \/ Handshake

SpecSnap == InitSnap /\ [][NextSnap]_vars

\* ------------------------------------- debounce-per-field strategy
\* The Workspace that broadcasts and persists every field on its own
\* debounce timers (unnamed/part_003) and the single-field update of the
\* cache service. A window of this Workspace is a record of its own shape
\* in win[w]; a value is a text, a sequence standing for a string of
\* ItemChars characters per item.
broadcastDebounce == 500
persistDebounce == 1000
largePayloadLimit == 3000
chunkSize == 2500
localChangeProtectionMsPerField == 3000

ItemChars == 1000        \* characters one item of a text stringifies to
EnvelopeChars == 500     \* characters of the rest of a broadcast payload
DebounceStep == 250      \* the clock step of this strategy, in ms
MaxBurst == 2            \* edits of one burst

Kinds == {"value", "meta"}
InitText == <<0>>
Texts == {<<1>>, <<2, 2>>, <<3, 3, 3>>}   \* sent whole, sent in chunks, too large to send

\* the meta of a field whose fieldtype broadcasts the key k1 only
MetaOf(text) == [k1 |-> text, k2 |-> InitText, __collaboration |-> {"k1"}]

cleanMetaPayload(value) ==
    IF "__collaboration" \in DOMAIN value
    THEN [k \in value.__collaboration |-> value[k]]
    ELSE value

\* JSON.stringify(payload).length of the payload that is broadcast
payloadChars(kind, value) ==
    EnvelopeChars + ItemChars * (IF kind = "value" THEN Len(value) ELSE Len(value.k1))

NewWorkspacePerField(users, activeWindows) ==
    [ joined |-> TRUE,
      destroyed |-> FALSE,
      values |-> [f \in Fields |-> InitText],
      meta |-> [f \in Fields |-> MetaOf(InitText)],
      lastValues |-> [f \in Fields |-> InitText],
      lastMetaValues |-> [f \in Fields |-> MetaOf(InitText)],
      users |-> users,
      activeWindows |-> activeWindows,
      applyingBroadcast |-> FALSE,
      loadingCachedState |-> FALSE,
      sinceLocalChange |-> localChangeProtectionMsPerField,
      broadcastTimer |-> [k \in Kinds |-> [f \in Fields |-> NoTimer]],  \* _.debounce(..., 500) per handle
      broadcastArgs |-> [k \in Kinds |-> [f \in Fields |-> Null]],      \* the payload of its last call
      persistTimer |-> [k \in Kinds |-> [f \in Fields |-> NoTimer]],    \* _.debounce(..., 1000) per handle
      persistArgs |-> [k \in Kinds |-> [f \in Fields |-> Null]],
      hEdits |-> [f \in Fields |-> 0],         \* history: changes of the value of f by the user
      hBroadcasts |-> [f \in Fields |-> 0],    \* history: 'updated' and 'fetch-field' whispers sent for f
      hPersists |-> [f \in Fields |-> 0],      \* history: persist calls made for the value of f
      hLastBroadcast |-> [f \in Fields |-> Null],
      hLastPersist |-> [f \in Fields |-> Null],
      hInterfered |-> FALSE ]                  \* history: a load or a remote change touched the window

\* isAlone() of this Workspace
isAlonePerField(s) ==
    LET multipleUsers == Cardinality(s.users) > 1
        multipleWindows == Cardinality(s.activeWindows) > 1
    IN  ~multipleUsers /\ ~multipleWindows

\* this.whisper(event, payload): the payload goes out whole or, from
\* chunkSize characters on, in chunks that the listener puts together
whisperPerField(s, m, force) ==
    IF ~force /\ isAlonePerField(s) THEN <<>>
    ELSE <<[m EXCEPT !.chunked = payloadChars(m.kind, m.value) >= chunkSize]>>

FieldMsg(type, user, handle, from, kind, value) ==
    [type |-> type, user |-> user, handle |-> handle, from |-> from,
     kind |-> kind, value |-> value, chunked |-> FALSE]

valueHasChangedPerField(s, handle, newValue) ==
    LET lastValue == IF s.lastValues[handle] = <<>> THEN Null ELSE s.lastValues[handle]
    IN  lastValue # newValue

metaHasChangedPerField(s, handle, newValue) == s.lastMetaValues[handle] # newValue

\* calling the debounced broadcast and persist functions of a handle
debounceBroadcast(s, kind, handle, payload) ==
    [s EXCEPT !.broadcastTimer[kind][handle] = broadcastDebounce,
              !.broadcastArgs[kind][handle] = payload]

debouncePersist(s, kind, handle, value) ==
    [s EXCEPT !.persistTimer[kind][handle] = persistDebounce,
              !.persistArgs[kind][handle] = value]

\* vuexFieldValueHasBeenSet of this Workspace, in window w of user me
vuexFieldValueHasBeenSetPerField(s, w, me, payload) ==
    IF ~valueHasChangedPerField(s, payload.handle, payload.value) THEN Result(s, <<>>)
    ELSE LET s1 == [s EXCEPT !.lastValues[payload.handle] = payload.value]
         IN  IF s1.applyingBroadcast THEN Result(s1, <<>>)
             ELSE LET s2 == [s1 EXCEPT !.sinceLocalChange = 0]
                      typing == whisperPerField(s2, FieldMsg("typing", me, payload.handle, w,
                                                              "value", <<>>), FALSE)
                      s3 == debounceBroadcast(s2, "value", payload.handle, payload.value)
                  IN  Result(IF me = payload.user
                             THEN debouncePersist(s3, "value", payload.handle, payload.value)
                             ELSE s3,
                             typing)

vuexFieldMetaHasBeenSetPerField(s, me, payload) ==
    IF ~metaHasChangedPerField(s, payload.handle, payload.value) THEN s
    ELSE LET s1 == [s EXCEPT !.lastMetaValues[payload.handle] = payload.value]
         IN  IF s1.applyingBroadcast THEN s1
             ELSE LET s2 == debounceBroadcast(s1, "meta", payload.handle, payload.value)
                  IN  IF me = payload.user
                      THEN debouncePersist(s2, "meta", payload.handle, payload.value)
                      ELSE s2

\* cancelPendingBroadcasts
cancelPendingBroadcasts(s) ==
    [s EXCEPT !.broadcastTimer = [k \in Kinds |-> [f \in Fields |-> NoTimer]]]

\* StateController::update of one field: the value is stored as it is, the
\* meta is merged into the meta the entry has (array_replace_recursive)
updateField(c, body) ==
    LET state == IF c.exists THEN c ELSE [exists |-> TRUE, values |-> EmptyObj, meta |-> EmptyObj]
        existing == IF body.handle \in DOMAIN state.meta THEN state.meta[body.handle] ELSE EmptyObj
    IN  IF body.type = "value"
        THEN [state EXCEPT !.values = Spread(@, [h \in {body.handle} |-> body.value])]
        ELSE [state EXCEPT !.meta = Spread(@, [h \in {body.handle} |-> Spread(existing, body.value)])]

\* the merge of loadCachedState of this Workspace
loadApplyPerField(s, data) ==
    LET s1 == IF DOMAIN data.values # {}
              THEN [s EXCEPT !.values = Spread(@, data.values)]
              ELSE s
    IN  IF DOMAIN data.meta # {}
        THEN [s1 EXCEPT !.meta = [h \in DOMAIN @ |->
                                     IF h \in DOMAIN data.meta
                                     THEN Spread(@[h], data.meta[h])
                                     ELSE @[h]]]
        ELSE s1

\* the user changes the value of a field; the edits of a burst follow each
\* other by less than the broadcast debounce delay
EditValue(w, value) ==
    /\ UserAt(w, "edit")
    /\ \E handle \in events.fields[w] :
          /\ \/ win[w].hEdits[handle] = 0
             \/ win[w].persistTimer["value"][handle] > persistDebounce - broadcastDebounce
          /\ LET changed == value # win[w].values[handle]
                 s1 == [win[w] EXCEPT !.values[handle] = value,
                                      !.hEdits[handle] = IF changed THEN @ + 1 ELSE @]
                 r == vuexFieldValueHasBeenSetPerField(s1, w, userOf[w],
                          [handle |-> handle, value |-> value, user |-> userOf[w]])
             IN  /\ win' = [win EXCEPT ![w] = r.s]
                 /\ net' = net \cup Sent(w, r.out)
    /\ events' = Spend(w, "edit")
    /\ UNCHANGED <<userOf, snaps, http, cache>>

\* the fieldtype of a field changes its meta
EditMeta(w, text) ==
    /\ UserAt(w, "meta")
    /\ \E handle \in events.fields[w] :
          win' = [win EXCEPT ![w] =
                     vuexFieldMetaHasBeenSetPerField([@ EXCEPT !.meta[handle] = MetaOf(text)],
                         userOf[w], [handle |-> handle, value |-> MetaOf(text), user |-> userOf[w]])]
    /\ events' = Spend(w, "meta")
    /\ UNCHANGED <<userOf, net, snaps, http, cache>>

\* A broadcastValueChange / broadcastMetaChange without the large payload
\* path: every change is whispered directly.
broadcastChangeDirect(s, w, me, kind, handle, value) ==
    [s |-> s, reqs |-> {},
     out |-> whisperPerField(s, FieldMsg(IF kind = "value" THEN "updated" ELSE "meta-updated",
                                         me, handle, w, kind, value), FALSE)]

\* broadcastValueChange / broadcastMetaChange up to the await or the
\* whisper: value is payload.value, cleaned already when it is a meta
broadcastChange(s, w, me, kind, handle, value) ==
    IF s.applyingBroadcast THEN [s |-> s, reqs |-> {}, out |-> <<>>]
    ELSE IF payloadChars(kind, value) > largePayloadLimit
    THEN [s |-> s, out |-> <<>>,
          reqs |-> {Req(w, "POST", "broadcast", handle,
                        [handle |-> handle, value |-> value, type |-> kind])}]
    ELSE [s |-> s, reqs |-> {},
          out |-> whisperPerField(s, FieldMsg(IF kind = "value" THEN "updated" ELSE "meta-updated",
                                              me, handle, w, kind, value), FALSE)]

\* the history of the broadcasts and persist calls of the value of a field
noteBroadcast(s, kind, handle, value, n) ==
    IF kind = "value" /\ n > 0
    THEN [s EXCEPT !.hBroadcasts[handle] = @ + n, !.hLastBroadcast[handle] = value]
    ELSE s

notePersist(s, kind, handle, value) ==
    IF kind = "value"
    THEN [s EXCEPT !.hPersists[handle] = @ + 1, !.hLastPersist[handle] = value]
    ELSE s

\* the debounced broadcast function of a handle fires
BroadcastDue(w, kind, handle) ==
    /\ win[w].broadcastTimer[kind][handle] = 0
    /\ LET payload == win[w].broadcastArgs[kind][handle]
           value == IF kind = "value" THEN payload ELSE cleanMetaPayload(payload)
           s1 == [win[w] EXCEPT !.broadcastTimer[kind][handle] = NoTimer]
           r == broadcastChange(s1, w, userOf[w], kind, handle, value)
           s2 == noteBroadcast(r.s, kind, handle, value, Len(r.out))
           s3 == IF r.reqs # {} THEN notePersist(s2, kind, handle, value) ELSE s2
       IN  /\ win' = [win EXCEPT ![w] = s3]
           /\ net' = net \cup Sent(w, r.out)
           /\ http' = http \cup r.reqs
    /\ UNCHANGED <<userOf, snaps, cache, events>>

\* the debounced persist function of a handle fires: sendStateUpdate
PersistDue(w, kind, handle) ==
    /\ win[w].persistTimer[kind][handle] = 0
    /\ LET value == win[w].persistArgs[kind][handle]
           s1 == [win[w] EXCEPT !.persistTimer[kind][handle] = NoTimer]
       IN  /\ win' = [win EXCEPT ![w] = notePersist(s1, kind, handle, value)]
           /\ http' = http \cup {Req(w, "POST", "persist", handle,
                                     [handle |-> handle, value |-> value, type |-> kind])}
    /\ UNCHANGED <<userOf, net, snaps, cache, events>>

\* the cache service answers a request of this strategy
ServeField(r) ==
    /\ r \in http /\ r.phase = "req"
    /\ \/ /\ r.kind = "GET"
          /\ http' = (http \ {r}) \cup {[r EXCEPT !.phase = "ok", !.data = show(cache)]}
          /\ cache' = cache
       \/ /\ r.kind = "POST"
          /\ http' = (http \ {r}) \cup {[r EXCEPT !.phase = "ok"]}
          /\ cache' = updateField(cache, r.body)
    /\ UNCHANGED <<userOf, win, net, snaps, events>>

\* sendStateUpdate after the await, whatever the answer (a rejected fetch is
\* caught, the status is not looked at); after the persist of a large
\* payload the broadcast goes on with the fetch-field notice
SendStateUpdateDone(r) ==
    /\ r \in http /\ r.kind = "POST" /\ r.phase # "req"
    /\ LET notice == IF r.src = "broadcast"
                     THEN <<FieldMsg("fetch-field", userOf[r.w], r.handle, r.w, r.body.type, <<>>)>>
                     ELSE <<>>
       IN  /\ win' = [win EXCEPT ![r.w] =
                         noteBroadcast(@, r.body.type, r.handle, r.body.value, Len(notice))]
           /\ net' = net \cup Sent(r.w, notice)
    /\ http' = http \ {r}
    /\ UNCHANGED <<userOf, snaps, cache, events>>

\* the 'updated' and 'meta-updated' listeners: applyBroadcastedValueChange
\* and applyBroadcastedMetaChange
RecvUpdated(w, x) ==
    /\ Recv(w, x) /\ x.m.type \in {"updated", "meta-updated"}
    /\ LET s1 == [win[w] EXCEPT !.applyingBroadcast = TRUE, !.hInterfered = TRUE]
           s2 == IF x.m.kind = "value"
                 THEN vuexFieldValueHasBeenSetPerField(
                          [s1 EXCEPT !.values[x.m.handle] = x.m.value], w, userOf[w],
                          [handle |-> x.m.handle, value |-> x.m.value, user |-> x.m.user]).s
                 ELSE LET value == Spread(s1.lastMetaValues[x.m.handle], x.m.value)
                      IN  vuexFieldMetaHasBeenSetPerField(
                              [s1 EXCEPT !.meta[x.m.handle] = value], userOf[w],
                              [handle |-> x.m.handle, value |-> value, user |-> x.m.user])
       IN  win' = [win EXCEPT ![w] = IF x.m.from = w THEN @
                                     ELSE [s2 EXCEPT !.applyingBroadcast = FALSE]]
    /\ net' = net \ {x}
    /\ UNCHANGED <<userOf, snaps, http, cache, events>>

\* the 'typing' listener: it shows who is typing where
RecvTyping(w, x) ==
    /\ Recv(w, x) /\ x.m.type = "typing"
    /\ net' = net \ {x}
    /\ UNCHANGED <<userOf, win, snaps, http, cache, events>>

\* the 'fetch-field' listener: loadCachedState('fetch-field listener') up
\* to the fetch
RecvFetchField(w, x) ==
    /\ Recv(w, x) /\ x.m.type = "fetch-field"
    /\ IF \/ x.m.from = w
          \/ win[w].loadingCachedState
          \/ win[w].sinceLocalChange < localChangeProtectionMsPerField
       THEN UNCHANGED <<win, http>>
       ELSE /\ win' = [win EXCEPT ![w] =
                          [cancelPendingBroadcasts(@) EXCEPT !.loadingCachedState = TRUE,
                                                             !.applyingBroadcast = TRUE,
                                                             !.hInterfered = TRUE]]
            /\ http' = http \cup {Req(w, "GET", "fetch-field listener", NoField, NoBody)}
    /\ net' = net \ {x}
    /\ UNCHANGED <<userOf, snaps, cache, events>>

\* loadCachedState after the fetch: the merge and the finally block
LoadFieldDone(r) ==
    /\ r \in http /\ r.kind = "GET" /\ r.phase # "req"
    /\ LET s1 == IF r.phase = "ok" /\ r.data.exists
                 THEN loadApplyPerField(win[r.w], r.data)
                 ELSE win[r.w]
       IN  win' = [win EXCEPT ![r.w] = [s1 EXCEPT !.applyingBroadcast = FALSE,
                                                  !.loadingCachedState = FALSE]]
    /\ http' = http \ {r}
    /\ UNCHANGED <<userOf, net, snaps, cache, events>>

TimersPerField(s) ==
    {s.broadcastTimer[k][f] : k \in Kinds, f \in Fields}
        \cup {s.persistTimer[k][f] : k \in Kinds, f \in Fields}

\* the clock of this strategy: DebounceStep ms pass (whispers and cache
\* requests take less than that)
TickPerField ==
    /\ net = {} /\ http = {}
    /\ \A w \in wins : 0 \notin TimersPerField(win[w])
    /\ \E w \in wins :
          \/ \E t \in TimersPerField(win[w]) : t > 0
          \/ win[w].sinceLocalChange < localChangeProtectionMsPerField
    /\ win' = [w \in wins |->
                  [win[w] EXCEPT
                      !.sinceLocalChange = Min(localChangeProtectionMsPerField, @ + DebounceStep),
                      !.broadcastTimer = [k \in Kinds |-> [f \in Fields |-> Down(@[k][f], DebounceStep)]],
                      !.persistTimer = [k \in Kinds |-> [f \in Fields |-> Down(@[k][f], DebounceStep)]]]]
    /\ UNCHANGED <<userOf, net, snaps, http, cache, events>>

\* One user alone, or two users on one document: the first types a burst
\* into a field or the fieldtype of the field changes its meta, and the
\* other user types once.
InitDebounce ==
    \E solo \in BOOLEAN, burst \in {0, MaxBurst} :
        /\ userOf = AB
        /\ win = [w \in DOMAIN AB |->
                     IF solo
                     THEN [NewWorkspacePerField({"A"}, {"w1"}) EXCEPT !.joined = (w = "w1")]
                     ELSE NewWorkspacePerField({"A", "B"}, DOMAIN AB)]
        /\ net = {}
        /\ snaps = {}
        /\ http = {}
        /\ cache = NoData
        /\ events = Budget(W2({"title"}, {"title"}), W2(0, 0),
                           W2(burst, IF solo THEN 0 ELSE 1),
                           W2(IF burst = 0 \/ solo THEN 1 ELSE 0, 0), W2(0, 0), W2(0, 0))

NextDebounce ==
    \/ \E w \in wins, value \in Texts : EditValue(w, value)
    \/ \E w \in wins, text \in Texts : EditMeta(w, text)
    \/ \E w \in wins, k \in Kinds, h \in Fields : BroadcastDue(w, k, h)
    \/ \E w \in wins, k \in Kinds, h \in Fields : PersistDue(w, k, h)
    \/ \E r \in http : ServeField(r)
    \/ \E r \in http : Refuse(r)
    \/ \E r \in http : NetworkError(r)
    \/ \E r \in http : SendStateUpdateDone(r)
    \/ \E r \in http : LoadFieldDone(r)
    \/ \E w \in wins, x \in net : RecvUpdated(w, x)
    \/ \E w \in wins, x \in net : RecvTyping(w, x)
    \/ \E w \in wins, x \in net : RecvFetchField(w, x)
    \/ TickPerField

SpecDebounce == InitDebounce /\ [][NextDebounce]_vars

\* ------------------------------------------------- the cache service
\* StateController with the JSON that reaches it and leaves it.  A JSON
\* text is a pair of a tag and a value: a number, null, an object (key -> JSON) or an
\* array (a sequence of JSON).  PHP has one array type for both: a map
\* from keys to values, in which the keys "0", "1", ... of a list are the
\* integers 0, 1, ... (PHP casts such string keys to integers).
MaxCalls == 2            \* requests to the cache service in a run

Num(n) == <<"num", n>>
JsonNull == <<"null", 0>>
Obj(f) == <<"obj", f>>
Arr(q) == <<"arr", q>>
PhpArray(f) == <<"array", f>>

\* the keys of a PHP list of n elements
ListKeys(n) == {DigitChar[i] : i \in 1..n}

RECURSIVE json_decode(_)
\* json_decode($content, true), as Request::input reads a JSON body
json_decode(j) ==
    CASE j[1] = "obj" -> PhpArray([k \in DOMAIN j[2] |-> json_decode(j[2][k])])
      [] j[1] = "arr" -> PhpArray([k \in ListKeys(Len(j[2])) |->
                                     json_decode(j[2][CHOOSE i \in 1..Len(j[2]) : DigitChar[i] = k])])
      [] OTHER -> j

\* array_is_list: the keys are 0, 1, ..., n - 1
array_is_list(p) == DOMAIN p[2] = ListKeys(Cardinality(DOMAIN p[2]))

RECURSIVE json_encode(_)
\* json_encode, as response()->json writes the answer
json_encode(p) ==
    CASE p[1] = "array" /\ array_is_list(p) ->
             Arr([i \in 1..Cardinality(DOMAIN p[2]) |-> json_encode(p[2][DigitChar[i]])])
      [] p[1] = "array" /\ ~array_is_list(p) ->
             Obj([k \in DOMAIN p[2] |-> json_encode(p[2][k])])
      [] OTHER -> p

RECURSIVE array_replace_recursive(_, _)
array_replace_recursive(a, b) ==
    PhpArray([k \in (DOMAIN a[2]) \cup (DOMAIN b[2]) |->
                 IF k \notin DOMAIN b[2] THEN a[2][k]
                 ELSE IF k \in DOMAIN a[2] /\ a[2][k][1] = "array" /\ b[2][k][1] = "array"
                      THEN array_replace_recursive(a[2][k], b[2][k])
                      ELSE b[2][k]])

\* $a ?? $b
Coalesce(a, b) == IF a[1] = "null" THEN b ELSE a

\* $array[$key] ?? $default
At(p, key, default) ==
    IF p[1] = "array" /\ key \in DOMAIN p[2] THEN Coalesce(p[2][key], default) ELSE default

\* (bool) $value of a PHP array or null
Truthy(p) == ~(p[1] = "null" \/ (p[1] = "array" /\ DOMAIN p[2] = {}))

\* a reference is a sequence of name parts and separators
References == {<<"entry", "::", "1">>, <<"entry", ".", "1">>, <<"entry", ".", "2">>}
Sites == {"default"}

\* StateController::cacheKey: str_replace('.', '::', $reference)
cacheKey(reference, site) ==
    [reference |-> [i \in 1..Len(reference) |-> IF reference[i] = "." THEN "::" ELSE reference[i]],
     site |-> site]

CacheKeys == {cacheKey(r, s) : r \in References, s \in Sites}

\* StateController::show after the guard: the JSON of the answer
showJson(state) ==
    IF ~Truthy(state)
    THEN [exists |-> FALSE, values |-> JsonNull, meta |-> JsonNull]
    ELSE [exists |-> TRUE,
          values |-> json_encode(At(state, "values", PhpArray(EmptyObj))),
          meta |-> json_encode(At(state, "meta", PhpArray(EmptyObj)))]

\* StateController::update with full = true: the state it puts
updateFull(state, body) ==
    PhpArray([k \in {"values", "meta"} |->
                 IF k \in DOMAIN body THEN json_decode(body[k]) ELSE PhpArray(EmptyObj)])

\* StateController::update of a single field: the state it puts
updateSingle(state, handle, value, type) ==
    LET s0 == IF state[1] = "null"
              THEN PhpArray([k \in {"values", "meta"} |-> PhpArray(EmptyObj)])
              ELSE state
    IN  IF type = "value"
        THEN [s0 EXCEPT ![2]["values"] =
                 PhpArray([h \in (DOMAIN @[2]) \cup {handle} |->
                              IF h = handle THEN json_decode(value) ELSE @[2][h]])]
        ELSE LET existingMeta == At(s0[2]["meta"], handle, PhpArray(EmptyObj))
                 newMeta == Coalesce(json_decode(value), PhpArray(EmptyObj))
             IN  [s0 EXCEPT ![2]["meta"] =
                     PhpArray([h \in (DOMAIN @[2]) \cup {handle} |->
                                  IF h = handle THEN array_replace_recursive(existingMeta, newMeta)
                                  ELSE @[2][h]])]

\* the JSON values of a field, and the documents (handle -> JSON) of a request
FieldJson ==
    {Num(0), Num(1), Obj(EmptyObj), Arr(<<>>), Obj([k \in {"k1"} |-> Num(1)]),
     Arr(<<Num(1)>>), Obj([k \in {"0"} |-> Num(1)])}

ValueDocs ==
    {Obj(EmptyObj), Obj([h \in {"body"} |-> Num(1)])} \cup {Obj([h \in {"title"} |-> j]) : j \in FieldJson}

MetaDocs ==
    {Obj(EmptyObj), Obj([h \in {"title"} |-> Obj(EmptyObj)]),
     Obj([h \in {"title"} |-> Obj([k \in {"k1"} |-> Num(1)])]),
     Obj([h \in {"body"} |-> Obj([k \in {"k2"} |-> Num(0)])])}

Bodies == {[values |-> v, meta |-> m] : v \in ValueDocs, m \in MetaDocs}

Exchange(op, reference, site, body, status, answer) ==
    [op |-> op, reference |-> reference, site |-> site, body |-> body,
     status |-> status, answer |-> answer]

NoAnswer == [exists |-> FALSE, values |-> JsonNull, meta |-> JsonNull]

\* a request reaches the controller: the guard, then the method.  `cache`
\* is the cache store (key -> state or null), `http` the exchanges so far.
Call(op, reference, site, body, authUser, state) ==
    /\ events' = [events EXCEPT !.calls = @ - 1]
    /\ IF ~authUser
       THEN /\ cache' = cache
            /\ http' = Append(http, Exchange(op, reference, site, body, 403, NoAnswer))
       ELSE /\ cache' = [cache EXCEPT ![cacheKey(reference, site)] = state]
            /\ http' = Append(http, Exchange(op, reference, site, body, 200,
                                             IF op = "GET" THEN showJson(state) ELSE NoAnswer))
    /\ UNCHANGED <<userOf, win, net, snaps>>

\* GET: StateController::show
GetState(reference, site, authUser) ==
    /\ events.calls > 0
    /\ Call("GET", reference, site, NoBody, authUser, cache[cacheKey(reference, site)])

\* POST with full = true: StateController::update
PostFull(reference, site, body, authUser) ==
    /\ events.calls > 0
    /\ Call("POST", reference, site, body, authUser,
            updateFull(cache[cacheKey(reference, site)], body))

\* POST of a single field: StateController::update
PostSingle(reference, site, handle, value, type, authUser) ==
    /\ events.calls > 0
    /\ Call("POST-field", reference, site, [handle |-> handle, value |-> value, type |-> type],
            authUser, updateSingle(cache[cacheKey(reference, site)], handle, value, type))

\* DELETE: StateController::destroy
DeleteState(reference, site, authUser) ==
    /\ events.calls > 0
    /\ Call("DELETE", reference, site, NoBody, authUser, JsonNull)

\* The entry of a document is absent or was put by an earlier request.
InitCache ==
    /\ userOf = AB
    /\ win = EmptyObj
    /\ net = {}
    /\ snaps = {}
    /\ http = <<>>
    /\ \E prior \in {JsonNull, updateSingle(JsonNull, "body", Num(1), "value")}
                         \cup {updateFull(JsonNull, [values |-> v, meta |-> v]) : v \in MetaDocs} :
           cache = [k \in CacheKeys |->
                       IF k = cacheKey(<<"entry", ".", "1">>, "default") THEN prior ELSE JsonNull]
    /\ events = [calls |-> MaxCalls]

NextCache ==
    \/ \E r \in References, s \in Sites, a \in BOOLEAN : GetState(r, s, a)
    \/ \E r \in References, s \in Sites, b \in Bodies, a \in BOOLEAN : PostFull(r, s, b, a)
    \/ \E r \in References, s \in Sites, j \in FieldJson, a \in BOOLEAN :
           PostSingle(r, s, "title", j, "value", a)
    \/ \E r \in References, s \in Sites, j \in {Obj(EmptyObj), Obj([k \in {"k2"} |-> Num(1)])},
          a \in BOOLEAN : PostSingle(r, s, "title", j, "meta", a)
    \/ \E r \in References, s \in Sites, a \in BOOLEAN : DeleteState(r, s, a)

SpecCache == InitCache /\ [][NextCache]_vars

\* ===================================================================
\* Properties
\* ===================================================================

LocksOn(s, handle) == {l \in s.fieldLocks : l.handle = handle}

RemoteFocusOn(w, handle) == {u \in Users \ {userOf[w]} : win[w].focus[u] = handle}

\* C1 (lock exclusivity): in every state of every window each field handle
\* has at most one lock record, also after a second, different remote user
\* focused a field that was already locked for the first.
C1_LockExclusivity ==
    \A w \in wins, h \in Fields : Cardinality(LocksOn(win[w], h)) <= 1

\* a window that saw two different remote users focus the same field
C1_Witness ==
    \E w \in wins, h \in Fields :
        /\ Cardinality(RemoteFocusOn(w, h)) = 2
        /\ LocksOn(win[w], h) # {}

InFlight(w, kind) == {r \in http : r.w = w /\ r.kind = kind}

\* this step hands the answer of a cache load to window w: a load that
\* was triggered by something else than an unlock timer
LoadArrives(w) ==
    \E r \in InFlight(w, "GET") :
        r.phase = "ok" /\ r.src # "before-unlock" /\ http' = http \ {r}

\* this step hands a peer's initialize-state snapshot to window w
SnapshotArrives(w) == \E p \in snaps : p.to = w /\ snaps' = snaps \ {p}

\* C3 (protection invariant): a step that applies a reconciliation to a
\* window (the answer of a loadCachedState call not made by an unlock timer,
\* or a peer's snapshot) leaves the value of every field unchanged that the
\* local user edited less than localChangeProtectionMs ago, also when the
\* fetch was started before the edit.
C3_ProtectionInvariant ==
    [][\A w \in wins, f \in Fields :
          (/\ win[w].hEditAge[f] < localChangeProtectionMs
           /\ LoadArrives(w) \/ SnapshotArrives(w))
          => win'[w].values[f] = win[w].values[f]]_vars

\* C4 (last edit survives the blur race): once a window has blurred after
\* local edits and none of its persist requests is in flight any more (all
\* succeeded), the cache holds, for every field the user edited, the value
\* the user typed last.
C4_LastEditPersisted ==
    \A w \in wins, f \in Fields :
        (/\ Alive(w)
         /\ win[w].hTyped[f] # Null
         /\ win[w].currentFocusedField = NoField
         /\ InFlight(w, "POST") = {})
        => cache.exists /\ cache.values[f] = win[w].hTyped[f]

\* the cache holds what the user of window w typed last into field f
Persisted(w, f) ==
    win[w].hTyped[f] # Null /\ cache.exists /\ cache.values[f] = win[w].hTyped[f]

\* C5 (no clobbering across fields): once the cache holds the edit a window
\* made to its field, no step reverts the field to an older value, neither
\* in the cache nor in the document of that window, while the other window
\* edits and persists another field.
C5_NoClobbering ==
    [][\A w \in wins, f \in Fields :
          (Persisted(w, f) /\ win'[w].hTyped[f] = win[w].hTyped[f])
          => /\ cache'.values[f] = win[w].hTyped[f]
             /\ win'[w].values[f] = win[w].hTyped[f]]_vars

\* this step delivers a sync-now whisper to window w
SyncNowArrives(w) ==
    \E x \in net : x.to = w /\ x.m.type = "sync-now" /\ x.m.from # w /\ net' = net \ {x}

\* this step runs a due unlock timer of window w
UnlockTimerFires(w) ==
    \E f \in Fields : win[w].pendingFieldUnlocks[f] = 0 /\ win'[w].pendingFieldUnlocks[f] # 0

\* what reconciliation reads and writes in a Workspace
Reconciled(s) ==
    <<s.values, s.meta, s.lastValues, s.lastMetaValues, s.applyingBroadcast,
      s.loadingCachedState, s.hasPendingChanges, s.sinceLocalChange>>

\* C10 (concurrency guard): a window never has two loadCachedState fetches
\* in flight; a sync-now trigger that arrives during a fetch changes nothing
\* of the window and issues no request, and an unlock timer that fires
\* during a fetch issues no request and leaves the document and the
\* reconciliation state alone.
C10_ConcurrencyGuard ==
    [][\A w \in wins :
          /\ Cardinality({r \in http' : r.w = w /\ r.kind = "GET"}) <= 1
          /\ (win[w].loadingCachedState /\ SyncNowArrives(w))
             => win'[w] = win[w] /\ http' = http
          /\ (win[w].loadingCachedState /\ UnlockTimerFires(w))
             => Reconciled(win'[w]) = Reconciled(win[w]) /\ http' = http]_vars

\* a sync-now whisper is about to reach a window that has a fetch in flight
C10_Witness ==
    \E x \in net :
        /\ x.m.type = "sync-now" /\ x.m.from # x.to /\ Recv(x.to, x)
        /\ win[x.to].loadingCachedState
        /\ InFlight(x.to, "GET") # {}

\* C9 (lock and release): a step in which a window releases the lock of a
\* field leaves the field, in that window, at the value the cache holds,
\* the value the editing window persisted.
C9_UnlockShowsPersisted ==
    [][\A w \in wins, f \in Fields :
          (Locked(win[w], f) /\ ~Locked(win'[w], f) /\ cache.exists)
          => win'[w].values[f] = cache.values[f]]_vars

\* (part of the scenario of C9) once the blur whisper has armed the unlock
\* timer of a locked field, the window releases the lock.
EventuallyUnlocks ==
    \A w \in {"w1", "w2"}, f \in Fields :
        (Locked(win[w], f) /\ win[w].pendingFieldUnlocks[f] >= 0) ~> ~Locked(win[w], f)

\* the chunks of message id on their way to window w, delivered or not
ChunksOf(w, id) == {x \in net : x.to = w /\ x.m.type = "chunked" /\ x.m.id = id}

\* every chunk of the message has reached window w at least once
AllArrived(w, id) == ChunksOf(w, id) # {} /\ \A x \in ChunksOf(w, id) : x.done >= 1

\* the calls of the callback in window w for message id
Calls(w, id) == {i \in 1..Len(win[w].hDelivered) : win[w].hDelivered[i].id = id}

\* the chunked messages sent so far
SentChunked == {t \in UNION {win[v].hSent : v \in wins} : Len(stringify(t.payload)) >= ChunkLen}

\* C6 (chunk reassembly): for a payload sent in N chunks, whatever the order
\* of arrival and the duplicates of non-final chunks before or after
\* completion, the callback is called at most once, with the payload that
\* was sent, and it has been called once all N chunks have arrived.
C6_ChunkReassembly ==
    \A w \in wins, t \in SentChunked :
        /\ Cardinality(Calls(w, t.id)) <= 1
        /\ \A i \in Calls(w, t.id) : win[w].hDelivered[i].payload = t.payload
        /\ AllArrived(w, t.id) => Cardinality(Calls(w, t.id)) = 1

\* a message of three chunks was completed and a duplicate of one of its
\* chunks arrived after that
C6_Witness ==
    \E w \in wins, t \in SentChunked :
        /\ Cardinality(ChunksOf(w, t.id)) = 3
        /\ Calls(w, t.id) # {}
        /\ \E x \in ChunksOf(w, t.id) : x.done = 2 /\ x.todo = 0
        /\ t.id \in DOMAIN win[w].chunkEvents

\* C7 (no partial delivery): the callback has been called for a chunked
\* message only if every chunk of it, from index 0 to the final one, has
\* arrived, also when the chunks of two messages arrive interleaved.
C7_NoPartialDelivery ==
    \A w \in wins, t \in SentChunked : Calls(w, t.id) # {} => AllArrived(w, t.id)

\* the final chunk of a message has arrived, an earlier one has not, and
\* chunks of a second message have arrived in between
C7_Witness ==
    \E w \in wins, t \in SentChunked, u \in SentChunked :
        /\ t.id # u.id
        /\ \E x \in ChunksOf(w, t.id) : x.m.final /\ x.done >= 1
        /\ \E x \in ChunksOf(w, t.id) : x.done = 0
        /\ \E x \in ChunksOf(w, u.id) : x.done >= 1
        /\ \E x \in ChunksOf(w, u.id) : x.done = 0
        /\ Calls(w, t.id) = {}

\* the document and the last-value caches of two Workspaces are the same
SameDocument(a, b) ==
    /\ a.values = b.values /\ a.meta = b.meta
    /\ a.lastValues = b.lastValues /\ a.lastMetaValues = b.lastMetaValues

\* C8 (idempotent merge): in every state, applying a fetched cache state
\* twice through loadCachedState, or a peer's snapshot twice through the
\* initialize-state listener, leaves values, meta, lastValues and
\* lastMetaValues as applying it once does.
C8_IdempotentMerge ==
    \A w \in wins :
        /\ \A r \in InFlight(w, "GET") :
              r.phase = "ok" =>
                  SameDocument(loadApply(loadApply(win[w], TRUE, r.data), TRUE, r.data),
                               loadApply(win[w], TRUE, r.data))
        /\ \A p \in snaps :
              p.to = w =>
                  SameDocument(initializeState(initializeState(win[w], userOf[w], p), userOf[w], p),
                               initializeState(win[w], userOf[w], p))

\* a fetched state and a snapshot are at hand that both change the document,
\* the fetched state also the last-value cache
C8_Witness ==
    \E w \in wins : \E r \in InFlight(w, "GET"), p \in snaps :
        /\ r.phase = "ok" /\ p.to = w
        /\ loadApply(win[w], TRUE, r.data).values # win[w].values
        /\ loadApply(win[w], TRUE, r.data).lastValues # win[w].lastValues
        /\ loadApply(win[w], TRUE, r.data).meta # win[w].meta
        /\ initializeState(win[w], userOf[w], p).values # win[w].values
        /\ initializeState(win[w], userOf[w], p).meta # win[w].meta
\* this step ends a loadCachedState call of window w that got as far as its
\* fetch: the answer, a refusal or a rejection has reached the call
LoadFinishes(w) == \E r \in InFlight(w, "GET") : r.phase # "req" /\ http' = http \ {r}

\* this step applies a peer's snapshot to window w (the listener does not
\* return early), with or without a throwing commit
SnapshotApplied(w) ==
    \E p \in snaps :
        /\ p.to = w /\ p.from # w /\ snaps' = snaps \ {p}
        /\ win[w].sinceLocalChange >= localChangeProtectionMs

\* C11 (flags are cleared in finally), as the code has it: a step that ends
\* a loadCachedState call, by success, refusal, missing entry, timeout,
\* network error or a throwing merge, leaves applyingBroadcast and
\* loadingCachedState false; a step that applies a snapshot, throwing or
\* not, leaves applyingBroadcast false and loadingCachedState as it was; and
\* a window with no fetch of loadCachedState in flight has both flags false.
C11_FlagsCleared ==
    [][\A w \in wins :
          /\ LoadFinishes(w)
             => ~win'[w].applyingBroadcast /\ ~win'[w].loadingCachedState
          /\ SnapshotApplied(w)
             => /\ ~win'[w].applyingBroadcast
                /\ win'[w].loadingCachedState = win[w].loadingCachedState
          /\ {r \in http' : r.w = w /\ r.kind = "GET"} = {}
             => ~win'[w].applyingBroadcast /\ ~win'[w].loadingCachedState]_vars

\* a window whose load was refused, one whose load timed out or was lost,
\* and one that got a snapshot during a fetch are all reached: here the
\* answer that reaches a loading window is a failure
C11_Witness ==
    \E w \in wins : \E r \in InFlight(w, "GET") :
        /\ r.phase \in {"forbidden", "thrown"}
        /\ win[w].loadingCachedState /\ win[w].applyingBroadcast

\* C11 as stated: after a loadCachedState call or the application of a
\* snapshot finishes, applyingBroadcast and loadingCachedState are both false.
C11_FlagsClearedAfterEither ==
    [][\A w \in wins :
          (LoadFinishes(w) \/ SnapshotApplied(w))
          => ~win'[w].applyingBroadcast /\ ~win'[w].loadingCachedState]_vars
\* the whispers this step puts on the channel for window w
NewWhispers(w) == {x \in net' \ net : x.m.from = w /\ x.m.type \notin LocalTypes}

\* a payload whisper() sends directly and one it sends in chunks
SamplePayloads == {<<>>, [i \in 1..MaxItems |-> MaxVal]}

ForcedTypes == {"saved", "published", "revision-restored"}

\* this step runs a save, publish or restore hook in window w
HookRuns(w) == events'.hook[w] < events.hook[w]

\* C12 (whisper and force): whisper() puts nothing on the channel when
\* isAlone() is true and force is not set (the focus and blur whispers of a
\* window that is alone are not sent; no payload is sent, directly or in
\* chunks), and it sends when force is set, alone or not: the saved,
\* published and revision-restored notices reach every other listener.
C12_WhisperForce ==
    /\ [](\A w \in wins : \A payload \in SamplePayloads :
             /\ isAlone(win[w]) => whisperPayload(win[w], payload, 1, w, FALSE) = {}
             /\ whisperPayload(win[w], payload, 1, w, TRUE) # {})
    /\ [][\A w \in wins :
             /\ isAlone(win[w])
                => \A x \in NewWhispers(w) : x.m.type \notin {"focus", "blur"}
             /\ HookRuns(w)
                => \A v \in Listeners \ {w} :
                       \E x \in NewWhispers(w) : x.to = v /\ x.m.type \in ForcedTypes]_vars

\* a forced notice is on its way from a window that is alone and has a
\* field focused, to a window that has not been told of that focus
C12_Witness ==
    \E x \in net :
        /\ x.m.type \in ForcedTypes
        /\ isAlone(win[x.m.from])
        /\ win[x.m.from].currentFocusedField # NoField
        /\ Alive(x.to) /\ win[x.to].focus[x.m.user] = NoField

\* this step is the local blur of window w, with changes pending
BlursWithChanges(w) ==
    /\ win[w].currentFocusedField # NoField /\ win'[w].currentFocusedField = NoField
    /\ win[w].hasPendingChanges /\ ~win'[w].destroyed

\* C13 (alone scenario): while isAlone() is true for a window, the edit and
\* the blur of its user put no whisper of any kind on the channel (no focus,
\* no sync-now, no blur), and the blur issues a persist that carries the
\* edited values.
C13_AloneSendsNothing ==
    [][\A w \in wins :
          /\ isAlone(win[w])
             => \A x \in NewWhispers(w) : x.m.type \notin {"focus", "sync-now", "blur"}
          /\ BlursWithChanges(w)
             => \E r \in http' \ http :
                    r.w = w /\ r.kind = "POST" /\ r.body.values = win[w].values]_vars
\* C14 (isAlone): isAlone() is true exactly when the warm-up period is over,
\* the roster holds at most one user, activeWindows holds at most one window
\* and localWindows records no sibling; while the warm-up timer started on
\* joining is running it is false whatever the sizes of those sets.
C14_IsAloneExactly ==
    \A w \in wins :
        /\ isAlone(win[w]) <=> /\ ~win[w].warmUpPeriod
                               /\ Cardinality(win[w].users) <= 1
                               /\ Cardinality(win[w].activeWindows) <= 1
                               /\ win[w].localWindows = {}
        /\ win[w].warmUpTimer # NoTimer => ~isAlone(win[w])

\* a window past its warm-up, with one user and one window on its lists,
\* that is not alone because a sibling of the same browser is recorded,
\* while another window is not alone only because it is warming up
C14_Witness ==
    \E w, v \in wins :
        /\ ~win[w].warmUpPeriod /\ Cardinality(win[w].users) <= 1
        /\ Cardinality(win[w].activeWindows) <= 1 /\ win[w].localWindows # {}
        /\ win[v].warmUpTimer # NoTimer /\ Cardinality(win[v].users) <= 1
        /\ Cardinality(win[v].activeWindows) <= 1 /\ win[v].localWindows = {}
\* the listener of whisper m in window w of user me
listener(s, w, me, m) ==
    IF m.from = w THEN s
    ELSE CASE m.type = "focus" -> focusListener(s, me, m)
           [] m.type = "blur" -> blurListener(s, me, m)
           [] m.type \in {"window-joined", "window-present"} -> windowArrived(s, m.from)
           [] m.type = "window-left" -> windowLeft(s, m.from)
           [] m.type = "sync-now" -> syncNowListener(s)

\* the whispers a window can receive from the windows of the session: focus
\* and blur with the field (a blur after a force-unlock carries none)
Deliverable ==
    {Msg(type, userOf[v], h, v) :
        type \in {"window-joined", "window-present", "window-left", "sync-now"},
        v \in wins, h \in {NoField}}
    \cup {Msg("focus", userOf[v], h, v) : v \in wins, h \in Fields}
    \cup {Msg("blur", userOf[v], h, v) : v \in wins, h \in Fields \cup {NoField}}

SameLocksFocusWindowsValues(a, b) ==
    /\ a.fieldLocks = b.fieldLocks /\ a.focus = b.focus
    /\ a.activeWindows = b.activeWindows /\ a.values = b.values

\* C15 (handler idempotence): a focus, blur, window-joined, window-present,
\* window-left or sync-now whisper delivered a second time, at once or a
\* clock step later, leaves the field locks, the focus map, activeWindows
\* and the values as the first delivery left them. Delivered twice at once
\* it leaves the whole window as the first delivery did; delivered later,
\* the only timer it changes is the unlock timer of a blurred field that was
\* pending, which it arms anew.
C15_HandlerIdempotence ==
    \A w \in wins, m \in Deliverable :
        LET once == listener(win[w], w, userOf[w], m)
            later == Elapse(once, TickMs)
            twice == listener(later, w, userOf[w], m)
        IN  /\ listener(once, w, userOf[w], m) = once
            /\ SameLocksFocusWindowsValues(twice, later)
            /\ twice.orphanUnlocks = later.orphanUnlocks
            /\ \A f \in Fields :
                  twice.pendingFieldUnlocks[f] # later.pendingFieldUnlocks[f]
                  => /\ m.type = "blur" /\ m.handle = f
                     /\ later.pendingFieldUnlocks[f] # NoTimer
                     /\ twice.pendingFieldUnlocks[f] = fieldUnlockDelay

\* a window holds a lock of another user whose field has an unlock timer
\* pending, and a second blur of that field would arm the timer anew
C15_Witness ==
    \E w \in wins : \E l \in win[w].fieldLocks :
        /\ l.user # userOf[w]
        /\ win[w].pendingFieldUnlocks[l.handle] \notin {NoTimer, fieldUnlockDelay}
        /\ \E v \in wins :
              /\ userOf[v] = l.user
              /\ blurListener(win[w], userOf[w], Msg("blur", l.user, l.handle, v)) # win[w]
\* this step handles the failed answer r to a persist of its window
PersistFails(r) ==
    /\ r.kind = "POST" /\ r.phase \in {"forbidden", "thrown"}
    /\ http' = http \ {r}

\* this step runs the sync-interval callback of window w
TickFires(w) == win[w].syncIntervalTimer = 0 /\ win'[w].syncIntervalTimer = syncInterval

\* this step is destroy() of window w
TearsDown(w) == ~win[w].destroyed /\ win'[w].destroyed

\* this step issues a persist of window w with the values and meta it has
PersistsCurrent(w) ==
    \E q \in http' \ http :
        /\ q.w = w /\ q.kind = "POST" /\ q.phase = "req"
        /\ q.body = [values |-> win[w].values, meta |-> win[w].meta]

\* C18 (failed persist): when a full-state persist has failed (network
\* error, timeout or non-OK answer), hasPendingChanges is true once the
\* failure is handled; and a sync-interval tick, a local blur or a teardown
\* of a window whose hasPendingChanges is true issues a persist that carries
\* the values the document has then.
C18_FailedPersistRetried ==
    [][\A w \in wins :
          /\ \A r \in InFlight(w, "POST") : PersistFails(r) => win'[w].hasPendingChanges
          /\ win[w].hasPendingChanges /\ (TickFires(w) \/ BlursWithChanges(w) \/ TearsDown(w))
             => PersistsCurrent(w)]_vars

\* after a failed persist the window has a persist in flight again, with
\* the values the user typed
C18_Witness ==
    \E r \in http :
        /\ r.kind = "POST" /\ r.phase = "req" /\ win[r.w].hFailed
        /\ r.body.values = win[r.w].values /\ r.body.values # InitValues

\* C19 (authorization failure): a 403 answer to a persist is a hard stop:
\* handling it does not re-arm a retry, hasPendingChanges is after the
\* answer what it was before it.
C19_ForbiddenIsFinal ==
    [][\A r \in http :
          PersistFails(r) /\ r.phase = "forbidden"
          => win'[r.w].hasPendingChanges = win[r.w].hasPendingChanges]_vars
\* C20 (cleared on save): once the DELETE issued by the entry.saved hook has
\* completed, and as long as no window has made a local edit since, the
\* cache holds no entry for the document, also when the saving window had
\* changes pending or a persist in flight at the save.
C20_ClearedStaysAbsent ==
    ((\E w \in wins : win[w].hCleared) /\ (\A v \in wins : ~win[v].hEdited))
    => ~cache.exists
\* the burst of edits of the value of f in window w is over: the debounce
\* timers of the field have fired and the persist calls are answered
BurstOver(w, f) ==
    /\ win[w].hEdits[f] >= 1
    /\ win[w].broadcastTimer["value"][f] = NoTimer
    /\ win[w].persistTimer["value"][f] = NoTimer
    /\ \A r \in InFlight(w, "POST") : ~(r.handle = f /\ r.body.type = "value")

\* C16 (debounce collapse, debounce-per-field strategy): the edits a user
\* makes to one field, each less than the debounce delay after the one
\* before, in a window that is not alone and that no load or remote change
\* touches meanwhile, lead to exactly one broadcast ('updated' whisper or
\* 'fetch-field' notice) and exactly one persist call for the field, each
\* with the final value.
C16_DebounceCollapse ==
    \A w \in wins, f \in Fields :
        (BurstOver(w, f) /\ ~win[w].hInterfered /\ ~isAlonePerField(win[w]))
        => /\ win[w].hBroadcasts[f] = 1 /\ win[w].hLastBroadcast[f] = win[w].values[f]
           /\ win[w].hPersists[f] = 1 /\ win[w].hLastPersist[f] = win[w].values[f]
\* the cache entry holds what the single-field persist r carries
Holds(c, r) ==
    /\ c.exists
    /\ IF r.body.type = "value"
       THEN r.handle \in DOMAIN c.values /\ c.values[r.handle] = r.body.value
       ELSE /\ r.handle \in DOMAIN c.meta
            /\ \A k \in DOMAIN r.body.value :
                  k \in DOMAIN c.meta[r.handle] /\ c.meta[r.handle][k] = r.body.value[k]

Before == http[Len(http) - 1]
Last == http[Len(http)]

\* the last request is a GET that was answered, and it follows a request
\* of the given kind for the same reference and site that was answered
GetFollows(op) ==
    /\ Len(http) >= 2
    /\ Last.op = "GET" /\ Last.status = 200
    /\ Before.op = op /\ Before.status = 200
    /\ Before.reference = Last.reference /\ Before.site = Last.site

\* C21: after a bulk POST of {values, meta, full: true} a GET for the same
\* reference and site answers exists = true with exactly the posted values
\* and meta, and after a DELETE it answers exists = false with null values
\* and null meta.
C21_CacheRoundTrip ==
    /\ GetFollows("POST") =>
           Last.answer = [exists |-> TRUE, values |-> Before.body.values, meta |-> Before.body.meta]
    /\ GetFollows("DELETE") =>
           Last.answer = [exists |-> FALSE, values |-> JsonNull, meta |-> JsonNull]

\* window w holds field h locked for user u
LockedFor(w, h, u) == [handle |-> h, user |-> u] \in win[w].fieldLocks

\* C22: a field that a window holds locked for another user, whose focus
\* whisper it has received (and no blur of theirs since), is still locked
\* for that user after any step of the window, the end of a delayed unlock
\* of the field included.
C22_RefocusKeepsLock ==
    [][\A w \in {"w1", "w2"}, h \in Fields, u \in Users :
           (/\ u # userOf[w]
            /\ win[w].focus[u] = h /\ LockedFor(w, h, u)
            /\ win'[w].focus[u] = h)
           => LockedFor(w, h, u)']_vars

\* the cache fetches that this step starts for the unlock of field f in window w
UnlockFetches(w, f) ==
    {r \in http' \ http : r.w = w /\ r.kind = "GET" /\ r.src = "before-unlock" /\ r.handle = f}

\* C23: a step in which a pending-unlock timer of a window fires starts a
\* cache fetch for that unlock, whether or not the local-edit protection
\* or another fetch of the window is running, and leaves the locks of the
\* window as they are: the unlock is committed when that fetch has completed.
C23_FetchBeforeUnlock ==
    [][\A w \in wins, f \in Fields :
          UnlockTimer(w, f) => /\ UnlockFetches(w, f) # {}
                               /\ win'[w].fieldLocks = win[w].fieldLocks]_vars

\* C24: a step in which the local user sets the focused field to a value
\* that differs from the last-seen one leaves hasPendingChanges set and
\* lastLocalChangeTime at the time of the step, and a step in which the
\* user changes the meta of a field leaves hasPendingChanges set, whatever
\* else the window is doing.
C24_LocalEditsArePending ==
    [][\A w \in wins :
          /\ \A v \in Val :
                (LocalEdit(w, v) /\ v # win[w].lastValues[win[w].currentFocusedField])
                => win'[w].hasPendingChanges /\ win'[w].sinceLocalChange = 0
          /\ \A h \in Fields, k \in MetaKeys :
                LocalMetaEdit(w, h, k) => win'[w].hasPendingChanges]_vars

\* C25: a window with a locally focused field has, in its focus map, the
\* entry of its own user with that field.
C25_FocusMapHasOwnFocus ==
    \A w \in wins :
        (Alive(w) /\ win[w].currentFocusedField # NoField)
        => win[w].focus[userOf[w]] = win[w].currentFocusedField

\* window w holds the title locked for user B, whose blur it has received
\* or who has left
HeldAfterBlur(w) == LockedFor(w, "title", "B") /\ win[w].focus["B"] = NoField

\* C26: in a window of user A, a field that is locked for user B after B's
\* blur whisper was received, or after B has left, is eventually unlocked
\* (or locked for somebody else), whatever whispers of A's other window
\* arrive in between.
C26_LockEventuallyReleased ==
    /\ HeldAfterBlur("w1") ~> ~LockedFor("w1", "title", "B")
    /\ HeldAfterBlur("w2") ~> ~LockedFor("w2", "title", "B")

\* a timer of the Workspace is armed: the session inactivity timer, the
\* field inactivity timer, the sync interval or a pending unlock
TimerArmed(s) ==
    \/ s.inactivityTimer
    \/ s.fieldInactivityTimer # NoTimer
    \/ s.syncIntervalTimer # NoTimer
    \/ \E f \in Fields : s.pendingFieldUnlocks[f] >= 0
    \/ s.orphanUnlocks # {}

\* C27: a Workspace that has been destroyed has no timer armed, and no step
\* removes a field lock in it.
C27_QuietAfterDestroy ==
    /\ [](\A w \in {"w1", "w2"} : win[w].destroyed => ~TimerArmed(win[w]))
    /\ [][\A w \in {"w1", "w2"} :
             win[w].destroyed => win[w].fieldLocks \subseteq win'[w].fieldLocks]_vars

\* C28: a step in which a window whispers sync-now (the blur handler after
\* its persist) whispers blur right after it, to the same windows, and
\* leaves the delayed unlock of the blurred field scheduled; after the step
\* no persist request of the window is outstanding.
C28_BlurOrder ==
    [][\A w \in wins :
          (\E x \in NewWhispers(w) : x.m.type = "sync-now")
          => /\ \A x \in NewWhispers(w) :
                   x.m.type = "sync-now"
                   => \E y \in NewWhispers(w) :
                          /\ y.to = x.to /\ y.m.type = "blur" /\ y.n = x.n + 1
                          /\ win'[w].pendingFieldUnlocks[y.m.handle] = fieldUnlockDelay
             /\ {r \in http' : r.w = w /\ r.kind = "POST"} = {}]_vars

\* C29: a tick of the sync interval in a window with pending changes sends
\* the full state to the cache, and the step that hands the window the
\* successful answer of that request whispers sync-now to the peers.
C29_TickNotifiesPeers ==
    [][/\ \A w \in wins :
             (SyncTick(w) /\ win[w].hasPendingChanges)
             => \E r \in http' \ http :
                    /\ r.w = w /\ r.kind = "POST"
                    /\ r.body = [values |-> win[w].values, meta |-> win[w].meta]
       /\ \A r \in http :
             (r.kind = "POST" /\ r.src = "syncInterval" /\ r.phase = "ok" /\ PersistDone(r))
             => \E x \in NewWhispers(r.w) : x.m.type = "sync-now"]_vars

\* C30: reconciliation from the cache merges the metadata per key: after a
\* fetched state has been applied, the meta of every fetched handle is the
\* local meta of that handle overlaid with the fetched keys, the values are
\* the local values overlaid with the fetched ones, and a handle that the
\* fetched state lacks keeps its value and its meta.
C30_MetaMergedPerKey ==
    [][\A r \in http :
          (r.kind = "GET" /\ r.phase = "ok" /\ r.data.exists /\ LoadDone(r))
          => LET s == win[r.w]
                 t == win'[r.w]
             IN  /\ DOMAIN r.data.values # {}
                        => t.values = Spread(s.values, r.data.values)
                 /\ DOMAIN r.data.values = {} => t.values = s.values
                 /\ \A h \in Fields :
                        t.meta[h] = IF h \in DOMAIN r.data.meta
                                    THEN Spread(s.meta[h], r.data.meta[h])
                                    ELSE s.meta[h]]_vars


\* the fields that change detection may touch
Detected(s) ==
    <<s.lastValues, s.lastMetaValues, s.saveStatus, s.notSavedToastShown,
      s.unsavedToastShown, s.inactivityTimer, s.sinceLocalChange, s.hasPendingChanges>>

\* C31: a value mutation whose value equals the last-seen value of its
\* handle is a no-op: the last-value caches, the save status, the session
\* inactivity timer, the time of the last local change and hasPendingChanges
\* are as before, for every value, falsy ones included.
C31_UnchangedIsNoOp ==
    [][\A w \in wins : \A v \in Val :
          (LocalEdit(w, v) /\ v = win[w].lastValues[win[w].currentFocusedField])
          => Detected(win'[w]) = Detected(win[w])]_vars

\* this step delivers to window w a blur whisper of another user
RemoteBlurArrives(w) ==
    \E x \in net : x.m.type = "blur" /\ x.m.user # userOf[w] /\ RecvBlur(w, x)

\* C32: after a blur whisper of another user for a field the window keeps
\* the field locked for at least fieldUnlockDelay: the step that receives the
\* blur releases no lock, and no lock of a field is released while the
\* unlock timer armed by a blur for that field is still running.
C32_GraceInterval ==
    [][\A w \in wins :
          /\ RemoteBlurArrives(w) => win'[w].fieldLocks = win[w].fieldLocks
          /\ \A f \in Fields :
                (Locked(win[w], f) /\ ~Locked(win'[w], f))
                => win[w].pendingFieldUnlocks[f] \notin 1..fieldUnlockDelay]_vars

\* the unlock timers of field f that are armed in s and have not fired
ArmedUnlocks(s, f) ==
    {t \in s.orphanUnlocks : t.handle = f}
        \cup (IF s.pendingFieldUnlocks[f] >= 0
              THEN {[handle |-> f, left |-> s.pendingFieldUnlocks[f]]} ELSE {})

\* this step is a focus event for field f in window w
FocusEvent(w, f) ==
    \/ LocalFocus(w, f)
    \/ \E x \in net : x.m.type = "focus" /\ x.m.handle = f /\ RecvFocus(w, x)

\* C33: a focus event for a field cancels the unlock that was scheduled for
\* it and has not fired yet (after the event no unlock timer of the field is
\* armed, so the earlier blur unlocks nothing), and at most one unlock
\* timer is armed per field.
C33_RefocusCancelsUnlock ==
    /\ [][\A w \in wins : \A f \in Fields :
             FocusEvent(w, f) => ArmedUnlocks(win'[w], f) = {}]_vars
    /\ [](\A w \in {"w1", "w2"} : \A f \in Fields :
             /\ win[w].pendingFieldUnlocks[f] >= 0
                   => \A t \in win[w].orphanUnlocks : t.handle # f
             /\ \A t, u \in win[w].orphanUnlocks : t.handle = f /\ u.handle = f => t = u)

\* the end of the release path of field h in window w, as the blur handler
\* runs it: sync-now is whispered to every other window and so is blur
\* (by whisper(): unless the window takes itself to be alone), the own
\* focus entry is removed and the delayed unlock of h is scheduled
Released(w, h) ==
    /\ \A v \in Listeners \ {w} :
          /\ \E x \in NewWhispers(w) : x.to = v /\ x.m.type = "sync-now"
          /\ isAlone(win[w])
                \/ \E x \in NewWhispers(w) : x.to = v /\ x.m.type = "blur" /\ x.m.handle = h
    /\ win'[w].focus[userOf[w]] = NoField
    /\ win'[w].pendingFieldUnlocks[h] = fieldUnlockDelay

\* C34: while a field is focused the field inactivity timer is armed, and
\* every focus and every keydown restarts it with the full timeout; when it
\* fires with a field focused the window runs the release path of a blur
\* (sync interval stopped, pending changes persisted, sync-now and blur
\* whispered, delayed unlock scheduled) and shows the notice; when it fires
\* with no field focused nothing is released.  (A window that was destroyed
\* while its persist request was out has left the channel.)
C34_FieldInactivity ==
    /\ [](\A w \in {"w1", "w2"} :
             win[w].currentFocusedField # NoField => win[w].fieldInactivityTimer >= 0)
    /\ [][\A w \in wins :
             /\ \A v \in Val : LocalEdit(w, v)
                    => win'[w].fieldInactivityTimer = fieldInactivityTimeout
             /\ \A h \in Fields : LocalFocus(w, h)
                    => win'[w].fieldInactivityTimer = fieldInactivityTimeout
             /\ (FieldInactivity(w) /\ win[w].currentFocusedField = NoField)
                    => /\ net' = net /\ http' = http
                       /\ win'[w] = [win[w] EXCEPT !.fieldInactivityTimer = NoTimer]
             /\ (FieldInactivity(w) /\ win[w].currentFocusedField # NoField)
                    => /\ win'[w].syncIntervalTimer = NoTimer
                       /\ win'[w].fieldInactivityTimer = NoTimer
                       /\ win'[w].currentFocusedField = NoField
                       /\ IF win[w].hasPendingChanges
                          THEN \E r \in http' \ http :
                                  /\ r.w = w /\ r.kind = "POST"
                                  /\ r.body = [values |-> win[w].values, meta |-> win[w].meta]
                          ELSE /\ Released(w, win[w].currentFocusedField)
                               /\ win'[w].autoUnlockNotice = noticeDuration
             /\ \A r \in http :
                    (r.w = w /\ r.kind = "POST" /\ r.src = "autoUnlock" /\ PersistDone(r)
                       /\ ~win[w].destroyed)
                    => /\ Released(w, r.handle)
                       /\ win'[w].autoUnlockNotice = noticeDuration]_vars

\* the inactivity timer has just released a field the user had typed in
C34_Witness ==
    \E w \in wins :
        /\ win[w].autoUnlockNotice = noticeDuration
        /\ win[w].hEdited
        /\ win[w].currentFocusedField = NoField /\ win[w].syncIntervalTimer = NoTimer
        /\ \E f \in Fields : win[w].pendingFieldUnlocks[f] = fieldUnlockDelay
        /\ \E x \in net : x.m.from = w /\ x.m.type = "blur"

\* the blur whisper the force-unlock listener of window v sends
ForcedBlur(v) == Msg("blur", userOf[v], NoField, v)

\* this step delivers the force-unlock whisper x to window w
ForceUnlockArrives(w, x) == x.m.type = "force-unlock" /\ x.m.from # w /\ RecvForceUnlock(w, x)

\* C35 (force-unlock): a force-unlock whisper changes nothing in a window
\* whose user is not the targeted one; a window of the targeted user drops
\* its user's focus entry and sends a blur whisper to the others; and the
\* window that takes in this blur whisper while it holds a field locked for
\* the targeted user starts the delayed unlock of that field.
C35_ForceUnlock ==
    [][\A w \in wins :
          /\ \A x \in net :
                ForceUnlockArrives(w, x) =>
                    IF x.m.user # userOf[w]
                    THEN win'[w] = win[w] /\ net' = net \ {x}
                    ELSE /\ win'[w].focus[userOf[w]] = NoField
                         /\ \A v \in Listeners \ {w} :
                               \E y \in net' \ net : y.to = v /\ y.m = ForcedBlur(w)
          /\ \A x \in net : \A h \in Fields :
                (/\ RecvBlur(w, x) /\ x.m = ForcedBlur(x.m.from)
                 /\ x.m.user # userOf[w] /\ LockedFor(w, h, x.m.user))
                => win'[w].pendingFieldUnlocks[h] # NoTimer]_vars

\* C35, its first two parts: who acts on a force-unlock whisper, and what
\* the targeted user's window does
C35_TargetOnly ==
    [][\A w \in wins : \A x \in net :
          ForceUnlockArrives(w, x) =>
              IF x.m.user # userOf[w]
              THEN win'[w] = win[w] /\ net' = net \ {x}
              ELSE /\ win'[w].focus[userOf[w]] = NoField
                   /\ \A v \in Listeners \ {w} :
                         \E y \in net' \ net : y.to = v /\ y.m = ForcedBlur(w)]_vars

\* a sync-now whisper has been lost
Dropped == events.drop = 0

\* window w shows what the cache holds for the title
Merged(w) == cache.exists => win[w].values["title"] = cache.values["title"]

\* a request has been out while the clock advanced
AnsweredLate == \E r \in http : r.left < apiTimeout

\* C36 (gap tolerance): when a sync-now whisper of window 1 has been lost,
\* window 2 still comes to show, and goes on showing, the values window 1
\* persisted, be it a window of another user or of the same user (in the
\* runs in which the server answers every request at once).
C36_GapTolerance == (<>AnsweredLate) \/ <>[](Dropped => Merged("w2"))

\* C36 for a second window of another user: the unlock that follows the
\* blur whisper fetches the cached state.
C36_OtherUser ==
    (<>AnsweredLate) \/ <>[]((Dropped /\ userOf["w2"] # userOf["w1"]) => Merged("w2"))

\* the request has come back without a cached state: the fetch failed (network
\* error, timeout, non-OK answer) or the answer says that no entry exists
NoStateFor(r) ==
    r.kind = "GET" /\ r.phase # "req" /\ (r.phase # "ok" \/ ~r.data.exists)

\* the document of a Workspace and its caches of last-seen values
Document(s) == <<s.values, s.meta, s.lastValues, s.lastMetaValues>>

\* C37: a reconciliation whose fetch fails or finds no entry leaves the
\* values, the meta and the lastValues and lastMetaValues caches of the
\* window as they were: neither the call up to its fetch nor its
\* continuation changes them.
C37_FailedFetchLeavesState ==
    [][\A w \in wins :
          /\ (\E q \in http' \ http : q.w = w /\ q.kind = "GET" /\ q.phase = "req")
             => Document(win'[w]) = Document(win[w])
          /\ \A r \in http :
                (r.w = w /\ NoStateFor(r) /\ LoadDone(r))
                => Document(win'[w]) = Document(win[w])]_vars

\* a failed fetch is about to return to a window whose document differs
\* from the cached one
C37_Witness ==
    \E r \in http :
        /\ r.kind = "GET" /\ r.phase \in {"forbidden", "thrown"}
        /\ win[r.w].loadingCachedState
        /\ cache.exists /\ cache.values # win[r.w].values

\* the windows whose last presence whisper received by s was window-joined
\* or window-present
LastSeenIn(s) == {p[1] : p \in {q \in s.hSeen : q[2] = "in"}}

\* the windows of which s has received a presence whisper
EverSeen(s) == {p[1] : p \in s.hSeen}

\* this step delivers a presence whisper to window w
PresenceArrives(w, x) ==
    \/ RecvWindowJoined(w, x) \/ RecvWindowPresent(w, x) \/ RecvWindowLeft(w, x)

\* C38: activeWindows of a window that has joined and is not destroyed is
\* its own id together with the ids whose last received presence whisper
\* was window-joined or window-present; a window-left of an id never seen
\* and a presence whisper with the window's own id leave the set as it is.
C38_ActiveWindows ==
    /\ [](\A w \in {"w1", "w2"} :
             (win[w].joined /\ ~win[w].destroyed)
             => win[w].activeWindows = {w} \cup (LastSeenIn(win[w]) \ {w}))
    /\ [][\A w \in wins : \A x \in net :
             /\ (RecvWindowLeft(w, x) /\ x.m.from \notin EverSeen(win[w]))
                => win'[w].activeWindows = win[w].activeWindows
             /\ (PresenceArrives(w, x) /\ x.m.from = w)
                => win'[w].activeWindows = win[w].activeWindows]_vars

\* a window has taken in a window-left whisper of a window it had seen
\* join, and holds its own id alone
C38_Witness ==
    \E w \in wins :
        /\ win[w].joined /\ ~win[w].destroyed
        /\ \E v \in wins \ {w} : <<v, "out">> \in win[w].hSeen
        /\ win[w].activeWindows = {w}

\* the entry.saved hook has not run in any window (the user of w1 may save once)
NeverSaved == events.hook = W2(1, 0)

\* C39: a document that starts with the save status notSaved does not get
\* the status saved before a save event: as long as the entry.saved hook
\* has not run in any window, every window shows notSaved or
\* changesNotSaved.
C39_NewEntryStaysUnsaved ==
    NeverSaved => \A w \in wins : win[w].saveStatus \in {"notSaved", "changesNotSaved"}

\* the fields the focus map of snapshot p reports as focused by a user
\* other than me
FocusedByOthers(p, me) == {p.focus[u] : u \in {v \in Users : v # me /\ p.focus[v] # NoField}}

\* C40: the window that receives a snapshot of another window holds, after
\* the step, a lock on every field that the snapshot's focus map reports as
\* focused by a user other than its own, also when a local edit within the
\* protection window keeps the snapshot's values and meta from being
\* applied.
C40_SnapshotLocks ==
    [][\A w \in wins : \A p \in snaps :
          (RecvInitState(w, p) /\ p.from # w)
          => \A h \in FocusedByOthers(p, userOf[w]) : Locked(win'[w], h)]_vars

\* C40 for a snapshot that comes outside the protection window
C40_UnprotectedSnapshotLocks ==
    [][\A w \in wins : \A p \in snaps :
          (/\ RecvInitState(w, p) /\ p.from # w
           /\ win[w].sinceLocalChange >= localChangeProtectionMs)
          => \A h \in FocusedByOthers(p, userOf[w]) : Locked(win'[w], h)]_vars

====
